---- MODULE Spec2Model ----
(***************************************************************************)
(* A model of souper's generalization tool (tools/generalize.cpp): the     *)
(* Reducer (ReduceAndGeneralize / ReduceRec), the Generalization Driver    *)
(* (SymbolizeAndGeneralize) and the fix-it transform (Generalize).         *)
(*                                                                         *)
(* An Inst is a record; the InstContext interns nodes, so two nodes are    *)
(* the same object exactly when they are equal as values here.  A Var is   *)
(* identified by its name (name, num): createVar makes a new object for    *)
(* every fresh name.                                                       *)
(***************************************************************************)
EXTENDS Integers, Sequences, FiniteSets, TLC

\* ------------------------------------------------------------------ bounds

\* The static counter varnum of ReduceRec survives earlier runs of the same
\* process: a run starts with varnum anywhere in 0..MaxPriorVars.
MaxPriorVars == 1
\* Fresh variables one reduce run may create (a cap on the counter; the
\* runs of the inputs below stay under it).
MaxNewVars == 5

\* The default of -souper-debug-level: the diagnostic output (levels 2 and
\* above) is off.
DebugLevel == 1

\* ------------------------------------------------------------------- Inst

Var(name, num, w) ==
  [k |-> "Var", w |-> w, name |-> name, num |-> num, val |-> 0, ops |-> <<>>]

Const(v, w) ==
  [k |-> "Const", w |-> w, name |-> "", num |-> 0, val |-> v, ops |-> <<>>]

Op(k, w, ops) ==
  [k |-> k, w |-> w, name |-> "", num |-> 0, val |-> 0, ops |-> ops]

InstMapping(l, r) == [LHS |-> l, RHS |-> r]

ParsedReplacement(l, r, pcs, bpcs) ==
  [Mapping |-> InstMapping(l, r), PCs |-> pcs, BPCs |-> bpcs]

Range(s) == {s[i] : i \in DOMAIN s}

\* collectInsts: every node reachable from I, I included.
RECURSIVE collectInsts(_)
collectInsts(I) ==
  {I} \cup UNION {collectInsts(I.ops[i]) : i \in DOMAIN I.ops}

\* The set Insts ReduceRec collects: LHS, RHS, both sides of every PC and BPC.
CollectAll(R) ==
  collectInsts(R.Mapping.LHS) \cup collectInsts(R.Mapping.RHS)
    \cup UNION {collectInsts(R.PCs[i].LHS) \cup collectInsts(R.PCs[i].RHS)
                  : i \in DOMAIN R.PCs}
    \cup UNION {collectInsts(R.BPCs[i].LHS) \cup collectInsts(R.BPCs[i].RHS)
                  : i \in DOMAIN R.BPCs}

\* getInstCopy with the cache ICache (a function from nodes to nodes): a
\* node in the cache is replaced by its image wherever it occurs, a node
\* above a replaced one is rebuilt with the same kind and width, anything
\* else is returned as it is.
RECURSIVE getInstCopy(_, _)
getInstCopy(I, ICache) ==
  IF I \in DOMAIN ICache THEN ICache[I]
  ELSE IF I.ops = <<>> THEN I
  ELSE [I EXCEPT !.ops = [i \in DOMAIN I.ops |-> getInstCopy(I.ops[i], ICache)]]

\* ------------------------------------------------------- the printed text

\* ReplacementContext: the nodes printed so far, in order; a node's number
\* is its place.  Constants are printed inline, not as lines of their own.
IndexOf(s, x) == CHOOSE i \in DOMAIN s : s[i] = x

ArgOf(I, nodes) ==
  IF I.k = "Const" THEN [c |-> TRUE, n |-> I.val, w |-> I.w]
  ELSE [c |-> FALSE, n |-> IndexOf(nodes, I), w |-> 0]

\* The one element of a singleton set.  Binding a computed context as the
\* element of a set has it computed once, however often it is then used.
The(S) == CHOOSE x \in S : TRUE

AddLine(k, w, args, c) ==
  [nodes |-> c.nodes,
   lines |-> Append(c.lines,
               [k |-> k, w |-> w,
                args |-> [i \in DOMAIN args |-> ArgOf(args[i], c.nodes)]])]

RECURSIVE printInst(_, _)
RECURSIVE printOps(_, _, _)
printOps(ops, i, ctx) ==
  IF i > Len(ops) THEN ctx
  ELSE The({printOps(ops, i + 1, c) : c \in {printInst(ops[i], ctx)}})

\* Without names (printNames = false) a Var prints as "%n:iW = var".  A node
\* is printed once, after its operands, and numbered by its place.
printInst(I, ctx) ==
  The({ IF I.k = "Const" \/ I \in Range(c0.nodes) THEN c0
        ELSE The({ AddLine(I.k, I.w, I.ops, [nodes |-> Append(c.nodes, I), lines |-> c.lines])
                   : c \in {printOps(I.ops, 1, c0)} })
        : c0 \in {ctx} })

Directive(k, args, ctx) == The({AddLine(k, 0, args, c) : c \in {ctx}})

RECURSIVE printPCs(_, _, _, _)
printPCs(pcs, i, tag, ctx) ==
  IF i > Len(pcs) THEN ctx
  ELSE The({ printPCs(pcs, i + 1, tag, c)
             : c \in {Directive(tag, <<pcs[i].LHS, pcs[i].RHS>>,
                                printInst(pcs[i].RHS, printInst(pcs[i].LHS, ctx)))} })

\* ParsedReplacement::getString(false): the path conditions, the block path
\* conditions, the LHS ("infer") and the RHS ("result"), in one context.
getString(R) ==
  LET c0 == [nodes |-> <<>>, lines |-> <<>>]
      c1 == printPCs(R.PCs, 1, "pc", c0)
      c2 == printPCs(R.BPCs, 1, "blockpc", c1)
      c3 == Directive("infer", <<R.Mapping.LHS>>, printInst(R.Mapping.LHS, c2))
      c4 == Directive("result", <<R.Mapping.RHS>>, printInst(R.Mapping.RHS, c3))
  IN c4.lines

\* std::string::length of a text: one unit for the line's name or directive,
\* one for its kind, one for each operand.
RECURSIVE length(_)
length(text) ==
  IF text = <<>> THEN 0
  ELSE 2 + Len(Head(text).args) + length(Tail(text))

\* ================================================================ Reducer

VARIABLES
  pc,             \* where the run is: start, enter, loop, emit, done
  Input,          \* the rule given to ReduceAndGeneralize
  ReducePrintAll, \* -reduce-all-results
  stack,          \* the active ReduceRec calls: [rule, todo], innermost last
  DoNotRepeat,    \* DNR, the texts already explored
  Results,        \* the rules recorded by ReduceRec, in order
  varnum,         \* ReduceRec's static counter
  out,            \* the texts written to standard output by line 423
  failed,         \* "Invalid Input." was reported
  \* what the run did, for the properties:
  judged,         \* the rules for which isValid answered "valid"
  queries,        \* isValid calls so far
  upfront,        \* the answer to the up-front query: none, valid, invalid, error
  recCalls,       \* ReduceRec calls so far
  explored,       \* the texts of the calls that went past the DNR check
  built,          \* variants built so far
  errMark         \* the counts when the first solver error was returned

rvars == <<pc, Input, ReducePrintAll, stack, DoNotRepeat, Results, varnum, out,
           failed, judged, queries, upfront, recCalls, explored, built, errMark>>

W8 == 8
X == Var("x", 0, W8)
Y == Var("y", 0, W8)

\* The rules a run is given: with no, one and two nodes that can be elided,
\* nested and side by side, with a path condition and a block path condition.
InputRules ==
  { ParsedReplacement(X, X, <<>>, <<>>),
    ParsedReplacement(Op("And", W8, <<X, X>>), X, <<>>, <<>>),
    ParsedReplacement(Op("Sub", W8, <<Op("Add", W8, <<X, Y>>), Y>>), X, <<>>, <<>>),
    ParsedReplacement(Op("And", W8, <<Op("Add", W8, <<X, Y>>), Op("Sub", W8, <<X, Y>>)>>),
                      X, <<>>, <<>>),
    ParsedReplacement(Op("And", W8, <<Op("Or", W8, <<Op("Xor", W8, <<X, Y>>), Y>>), X>>),
                      X, <<>>, <<>>),
    ParsedReplacement(Op("Add", W8, <<Op("Mul", W8, <<X, Const(2, W8)>>), Y>>),
                      Op("Add", W8, <<Y, X>>),
                      <<InstMapping(Op("Ult", 1, <<X, Const(4, W8)>>), Const(1, 1))>>,
                      <<>>),
    ParsedReplacement(Op("Add", W8, <<X, Y>>), X, <<>>,
                      <<InstMapping(Op("Eq", 1, <<Y, Const(0, W8)>>), Const(1, 1))>>) }

\* The answers of Solver::isValid: a verdict, or an error code.
Answers == {"valid", "invalid", "error"}

\* `bool Valid;` is not initialised and isValid is handed a reference to it:
\* after an error it holds whatever the build left there.
ValidAfter(ans, garbage) == IF ans = "error" THEN garbage ELSE ans = "valid"

Garbage(ans) == IF ans = "error" THEN BOOLEAN ELSE {FALSE}

NoMark == [seen |-> FALSE, q |-> 0, nres |-> 0, rec |-> 0]

Mark(ans, q, nres, rec) ==
  IF ans = "error" /\ ~errMark.seen
  THEN [seen |-> TRUE, q |-> q, nres |-> nres, rec |-> rec]
  ELSE errMark

RInit ==
  /\ pc = "start"
  /\ Input \in InputRules
  /\ ReducePrintAll \in BOOLEAN
  /\ stack = <<>>
  /\ DoNotRepeat = {}
  /\ Results = <<>>
  /\ varnum \in 0..MaxPriorVars
  /\ out = <<>>
  /\ failed = FALSE
  /\ judged = {}
  /\ queries = 0
  /\ upfront = "none"
  /\ recCalls = 0
  /\ explored = <<>>
  /\ built = 0
  /\ errMark = NoMark

Top == stack[Len(stack)]

\* A ReduceRec call returns: to its caller's loop, or to ReduceAndGeneralize.
Return ==
  /\ stack' = SubSeq(stack, 1, Len(stack) - 1)
  /\ pc' = IF Len(stack) = 1 THEN "emit" ELSE "loop"

UpfrontProceedsAlways(valid) == TRUE

\* ReduceAndGeneralize goes on to ReduceRec unless Valid is false.
UpfrontProceeds(valid) == valid

\* ReduceAndGeneralize, up to its call of ReduceRec.
UpfrontCheck(ans, garbage) ==
  /\ pc = "start"
  /\ queries' = queries + 1
  /\ upfront' = ans
  /\ judged' = IF ans = "valid" THEN judged \cup {Input} ELSE judged
  /\ errMark' = Mark(ans, queries + 1, 0, 0)
  /\ IF UpfrontProceeds(ValidAfter(ans, garbage))
     THEN /\ stack' = <<[rule |-> Input, todo |-> {}]>>
          /\ recCalls' = 1
          /\ pc' = "enter"
          /\ failed' = FALSE
     ELSE /\ failed' = TRUE
          /\ pc' = "done"
          /\ UNCHANGED <<stack, recCalls>>
  /\ UNCHANGED <<Input, ReducePrintAll, DoNotRepeat, Results, varnum, out,
                 explored, built>>

SkippedRootsOnly(R, I) == I = R.Mapping.LHS \/ I = R.Mapping.RHS

\* The nodes the loop passes over (line 346).
Skipped(R, I) ==
  I = R.Mapping.LHS \/ I = R.Mapping.RHS \/ I.k = "Var" \/ I.k = "Const"

\* The nodes of Insts the loop tries; it passes over the others with no
\* effect.  The unordered_set is walked in an order the build chooses.
Candidates(R) == {I \in CollectAll(R) : ~Skipped(R, I)}

RememberNothing(dnr, str) == dnr

\* The set DNR after ReduceRec's first statement on a text not yet in it.
Remember(dnr, str) == dnr \cup {str}

\* ReduceRec from its entry to its loop: the DNR check, the collection of the
\* nodes, the base case.
ReduceRecEnter ==
  /\ pc = "enter"
  /\ LET Str == getString(Top.rule)
         Insts == CollectAll(Top.rule)
     IN IF Str \in DoNotRepeat
        THEN /\ Return
             /\ UNCHANGED <<DoNotRepeat, explored>>
        ELSE /\ DoNotRepeat' = Remember(DoNotRepeat, Str)
             /\ explored' = Append(explored, Str)
             /\ IF Cardinality(Insts) <= 1
                THEN Return
                ELSE /\ stack' = [stack EXCEPT ![Len(stack)].todo = Candidates(Top.rule)]
                     /\ pc' = "loop"
  /\ UNCHANGED <<Input, ReducePrintAll, Results, varnum, out, failed, judged,
                 queries, upfront, recCalls, built, errMark>>

RemainingStuck(todo, I) == todo

\* The range-for over Insts: what is left once I has had its turn.
Remaining(todo, I) == todo \ {I}

CopyMapping(M, ICache) ==
  InstMapping(getInstCopy(M.LHS, ICache), getInstCopy(M.RHS, ICache))

VariantOfMappingOnly(R, I, NewVar) ==
  [Mapping |-> CopyMapping(R.Mapping, I :> NewVar), PCs |-> R.PCs, BPCs |-> R.BPCs]

\* Lines 353-374: the one substitution I -> NewVar applied to the LHS, the
\* RHS, and both sides of every PC and BPC.
Variant(R, I, NewVar) ==
  LET ICache == I :> NewVar
  IN [Mapping |-> CopyMapping(R.Mapping, ICache),
      PCs |-> [i \in DOMAIN R.PCs |-> CopyMapping(R.PCs[i], ICache)],
      BPCs |-> [i \in DOMAIN R.BPCs |-> CopyMapping(R.BPCs[i], ICache)]]

\* One turn of the loop for a node that is tried: the variant, the query,
\* and the recording and the recursive call when Valid is true.
TryVariant(I, ans, garbage) ==
  /\ pc = "loop"
  /\ I \in Top.todo
  /\ built < MaxNewVars
  /\ LET NewVar == Var("newvar", varnum, I.w)
         V == Variant(Top.rule, I, NewVar)
         rest == [stack EXCEPT ![Len(stack)].todo = Remaining(Top.todo, I)]
     IN /\ varnum' = varnum + 1
        /\ built' = built + 1
        /\ queries' = queries + 1
        /\ judged' = IF ans = "valid" THEN judged \cup {V} ELSE judged
        /\ errMark' = Mark(ans, queries + 1, Len(Results), recCalls)
        /\ IF ValidAfter(ans, garbage)
           THEN /\ Results' = Append(Results, V)
                /\ stack' = Append(rest, [rule |-> V, todo |-> {}])
                /\ recCalls' = recCalls + 1
                /\ pc' = "enter"
           ELSE /\ stack' = rest
                /\ UNCHANGED <<Results, recCalls, pc>>
        /\ out' = IF ~ValidAfter(ans, garbage) /\ DebugLevel >= 2
                  THEN Append(out, getString(V))
                  ELSE out
  /\ UNCHANGED <<Input, ReducePrintAll, DoNotRepeat, failed, upfront,
                 explored>>

\* The loop is over: ReduceRec returns.
LoopEnd ==
  /\ pc = "loop"
  /\ Top.todo = {}
  /\ Return
  /\ UNCHANGED <<Input, ReducePrintAll, DoNotRepeat, Results, varnum, out,
                 failed, judged, queries, upfront, recCalls, explored, built,
                 errMark>>

\* std::set<std::string> of the results' texts.
DedupedResults == {getString(Results[i]) : i \in DOMAIN Results}

SortedAnyOrder(S) ==
  { s \in [1..Cardinality(S) -> S] : \A i, j \in DOMAIN s : i < j => s[i] # s[j] }

\* std::sort by length is not stable: any order of S with nondecreasing
\* lengths may come out.
SortedByLength(S) ==
  { s \in [1..Cardinality(S) -> S] :
      /\ \A i, j \in DOMAIN s : i < j => s[i] # s[j] /\ length(s[i]) <= length(s[j]) }

\* The loop of lines 419-427: all of the sorted texts, or the first alone.
Printed(sorted, all) ==
  IF all \/ sorted = <<>> THEN sorted ELSE <<sorted[1]>>

\* Lines 410-432: the output of ReduceAndGeneralize.
Emit ==
  /\ pc = "emit"
  /\ \E s \in SortedByLength(DedupedResults) :
       out' = out \o (IF Results # <<>> THEN Printed(s, ReducePrintAll) ELSE <<>>)
  /\ pc' = "done"
  /\ UNCHANGED <<Input, ReducePrintAll, stack, DoNotRepeat, Results, varnum,
                 failed, judged, queries, upfront, recCalls, explored, built,
                 errMark>>

\* The nodes the innermost call's loop has yet to visit.
Todo == IF pc = "loop" THEN Top.todo ELSE {}

\* No reduce run: the state of the Reducer while another transform runs.
RIdle ==
  /\ pc = "idle"
  /\ Input = ParsedReplacement(X, X, <<>>, <<>>)
  /\ ReducePrintAll = FALSE
  /\ stack = <<>>
  /\ DoNotRepeat = {}
  /\ Results = <<>>
  /\ varnum = 0
  /\ out = <<>>
  /\ failed = FALSE
  /\ judged = {}
  /\ queries = 0
  /\ upfront = "none"
  /\ recCalls = 0
  /\ explored = <<>>
  /\ built = 0
  /\ errMark = NoMark

\* ======================================= the Precondition Inferrer's answers

\* llvm::KnownBits of width w: the bits known zero and the bits known one,
\* as sets of bit positions; countPopulation is the size of the set.
KnownBits(w, zero, one) == [w |-> w, Zero |-> zero, One |-> one]

\* A disjunct that pins bit i of every variable of V to zero.
LooseDisjunct(i, V) == [v \in V |-> KnownBits(v.w, {i}, {})]

\* A disjunct that constrains v alone: all its bits but the lowest two are zero.
TightDisjunct(v) == v :> KnownBits(v.w, 2..(v.w - 1), {})

\* The most disjuncts an answer holds.
MaxDisjuncts == 4

\* The known-bits results abstractPrecondition may hand back for a rule over
\* the variables V, of which v is one.
KBPool(V, v) ==
  { <<>>,
    <<TightDisjunct(v)>>,
    <<LooseDisjunct(0, V), TightDisjunct(v)>>,
    [i \in 1..MaxDisjuncts |-> LooseDisjunct(i - 1, V)] }

\* The interval results: none, or one disjunct [0, 4) on v.
CRPool(v) == { <<>>, <<v :> [Lower |-> 0, Upper |-> 4]>> }

\* What abstractPrecondition returns through FoundWP, KBResults, CRResults:
\* FoundWP with any results, and no FoundWP, with results and without.
InferAnswers(V, v) ==
  [FoundWP : {TRUE}, KB : KBPool(V, v), CR : CRPool(v)]
    \cup [FoundWP : {FALSE}, KB : {<<>>, <<TightDisjunct(v)>>}, CR : CRPool(v)]

\* The three locals as they are when abstractPrecondition is not called.
NoInference == [FoundWP |-> FALSE, KB |-> <<>>, CR |-> <<>>]

\* ================================================================= Fix-it

VARIABLES
  fpc,      \* start, done (idle when another transform runs)
  FInput,   \* the rule given to Generalize
  facts,    \* KnownZeros, KnownOnes and Range of the rule's Var nodes
  fAns,     \* what abstractPrecondition returned
  fOut      \* what Generalize printed: the rule, with the facts at that time

fvars == <<fpc, FInput, facts, fAns, fOut>>

FullRange == [Lower |-> 0, Upper |-> 0]

\* A Var as parsed: no bit known, the full range.
NoFacts == [KnownZeros |-> {}, KnownOnes |-> {}, Range |-> FullRange]

FixitRule == ParsedReplacement(Op("Add", W8, <<X, Y>>), Op("Or", W8, <<X, Y>>), <<>>, <<>>)

VarsOf(R) == {I \in CollectAll(R) : I.k = "Var"}

\* Lines 77-80: the known bits of one disjunct written into the nodes.
WriteKB(f, Result) ==
  [v \in DOMAIN f |->
     IF v \in DOMAIN Result
     THEN [f[v] EXCEPT !.KnownOnes = Result[v].One, !.KnownZeros = Result[v].Zero]
     ELSE f[v]]

\* Lines 85-87: the ranges of one disjunct written into the nodes.
WriteCR(f, Result) ==
  [v \in DOMAIN f |-> IF v \in DOMAIN Result THEN [f[v] EXCEPT !.Range = Result[v]] ELSE f[v]]

\* The facts after the first n disjuncts have been written, one after another.
RECURSIVE FactsAfter(_, _, _, _)
FactsAfter(f, Rs, n, kb) ==
  IF n = 0 THEN f
  ELSE The({ IF kb THEN WriteKB(g, Rs[n]) ELSE WriteCR(g, Rs[n])
             : g \in {FactsAfter(f, Rs, n - 1, kb)} })

\* Input.print(llvm::outs(), true): the rule, with the facts its Vars hold.
PrintWithFacts(R, f) == [rule |-> R, facts |-> f]

\* Whether the first branch of Generalize (line 73) is taken.
PrintsAsIs(ans) == ans.FoundWP /\ ans.KB = <<>> /\ ans.CR = <<>>

FIdle ==
  /\ fpc = "idle"
  /\ FInput = FixitRule
  /\ facts = [v \in VarsOf(FixitRule) |-> NoFacts]
  /\ fAns = NoInference
  /\ fOut = <<>>

FInit ==
  /\ fpc = "start"
  /\ FInput = FixitRule
  /\ facts = [v \in VarsOf(FixitRule) |-> NoFacts]
  /\ fAns = NoInference
  /\ fOut = <<>>

\* Generalize (lines 67-91), for the answer ans of abstractPrecondition.
Generalize(ans) ==
  /\ fpc = "start"
  /\ fAns' = ans
  /\ IF PrintsAsIs(ans)
     THEN /\ fOut' = <<PrintWithFacts(FInput, facts)>>
          /\ facts' = facts
     ELSE IF ans.KB # <<>>
     THEN /\ fOut' = [n \in DOMAIN ans.KB |->
                        PrintWithFacts(FInput, FactsAfter(facts, ans.KB, n, TRUE))]
          /\ facts' = FactsAfter(facts, ans.KB, Len(ans.KB), TRUE)
     ELSE IF ans.CR # <<>>
     THEN /\ fOut' = [n \in DOMAIN ans.CR |->
                        PrintWithFacts(FInput, FactsAfter(facts, ans.CR, n, FALSE))]
          /\ facts' = FactsAfter(facts, ans.CR, Len(ans.CR), FALSE)
     ELSE /\ fOut' = <<>>
          /\ facts' = facts
  /\ fpc' = "done"
  /\ UNCHANGED FInput

\* ================================================================= Driver

VARIABLES
  dpc,            \* pass, synth, infer, emit, done, crashed (idle for another transform)
  DInput,         \* the rule given to SymbolizeAndGeneralize
  SymbolizeNoDFP, \* -symbolize-no-dataflow
  pass,           \* the pass that runs or runs next, from 1
  target,         \* RHSConsts[0] as this pass read it
  Guesses,        \* the vector Guesses of the pass
  gi,             \* the place of the loop that runs in Guesses, from 1
  WithoutConsts,  \* the guesses with no constant to synthesize
  Preconditions,  \* KBResults of each hole-free guess
  Utility,        \* the vector Utility of the pass
  Idx,            \* the vector Idx of the pass, sorted
  CandMap,        \* Results, the CandidateMap all passes append to
  dOut,           \* the candidates printed (lines 240-243)
  \* what the run did, for the properties:
  basis,          \* the Inferrer's answer for each hole-free guess of the pass
  support         \* for each entry of CandMap: its pass, its guess, and the
                  \* path conditions and facts its validity was established under

dvars == <<dpc, DInput, SymbolizeNoDFP, pass, target, Guesses, gi, WithoutConsts,
           Preconditions, Utility, Idx, CandMap, dOut, basis, support>>

\* The most expressions generateExprs returns in the model.
MaxGuesses == 2

\* "Guess = nullptr"
Null == Op("null", 0, <<>>)

\* A constant the synthesizer leaves to the Constant Solver (reservedconst).
Hole(w) == Var("reservedconst", 1, w)

W64 == 64
X64 == Var("x", 0, W64)

\* The rules a symbolize run is given: one LHS constant, two LHS constants,
\* a path condition, no LHS constant, no RHS constant.
DInputRules ==
  { ParsedReplacement(Op("Add", W64, <<X64, Const(4, W64)>>),
                      Op("Or", W64, <<X64, Const(4, W64)>>), <<>>, <<>>),
    ParsedReplacement(Op("Add", W8, <<Op("Mul", W8, <<X, Const(2, W8)>>), Const(1, W8)>>),
                      Op("Or", W8, <<Op("Shl", W8, <<X, Const(1, W8)>>), Const(3, W8)>>),
                      <<>>, <<>>),
    ParsedReplacement(Op("Add", W8, <<X, Const(4, W8)>>), Op("Or", W8, <<X, Const(4, W8)>>),
                      <<InstMapping(Op("Ult", 1, <<X, Const(4, W8)>>), Const(1, 1))>>, <<>>),
    ParsedReplacement(Op("Xor", W8, <<X, X>>), Const(0, W8), <<>>, <<>>),
    ParsedReplacement(Op("Add", W8, <<X, Const(0, W8)>>), X, <<>>, <<>>) }

RECURSIVE Preorder(_)
RECURSIVE PreorderOps(_, _)
PreorderOps(ops, i) ==
  IF i > Len(ops) THEN <<>> ELSE Preorder(ops[i]) \o PreorderOps(ops, i + 1)

Preorder(I) == <<I>> \o PreorderOps(I.ops, 1)

\* The elements of s, each at its first place only.
RECURSIVE Dedup(_)
Dedup(s) ==
  IF s = <<>> THEN <<>>
  ELSE The({ IF s[Len(s)] \in Range(d) THEN d ELSE Append(d, s[Len(s)])
             : d \in {Dedup(SubSeq(s, 1, Len(s) - 1))} })

IsConst(I) == I.k = "Const"

\* findInsts(root, Insts, Pred) with the predicate of line 224.
findInsts(root) == Dedup(SelectSeq(Preorder(root), IsConst))

LHSConsts == findInsts(DInput.Mapping.LHS)
RHSConsts == findInsts(DInput.Mapping.RHS)

\* Lines 231-237: one pass for each LHS constant, then one for all of them.
NumPasses == Len(LHSConsts) + 1

PassConsts(p) == IF p <= Len(LHSConsts) THEN <<LHSConsts[p]>> ELSE LHSConsts

\* Lines 99-104.  The Vars of two passes are two objects, also when they
\* have the same name; the model tells them apart by the pass.
FakeConsts(p) ==
  [i \in DOMAIN PassConsts(p) |-> Var("fakeconst", i - 1, PassConsts(p)[i].w)]

InstCache(p) ==
  [c \in Range(PassConsts(p)) |-> FakeConsts(p)[IndexOf(PassConsts(p), c)]]

\* Line 117.
DLHS(p) == getInstCopy(DInput.Mapping.LHS, InstCache(p))

\* Lines 127-129 and 156-159: the RHS with the pass's constants replaced and
\* the target replaced by the guess.
DRHS(p, tgt, Guess) ==
  getInstCopy(DInput.Mapping.RHS,
              [c \in DOMAIN InstCache(p) \cup {tgt} |->
                 IF c = tgt THEN Guess ELSE InstCache(p)[c]])

\* The expressions generateExprs may return, of width w, over the fake
\* constants: a fake constant, an instruction over it, an instruction with a
\* constant to synthesize.
GuessPool(p, w) ==
  IF FakeConsts(p) = <<>> THEN {Hole(w)}
  ELSE { FakeConsts(p)[1],
         Op("Sub", w, <<Const(0, w), FakeConsts(p)[1]>>),
         Op("Add", w, <<FakeConsts(p)[1], Hole(w)>>) }

\* The most expressions it returns in a pass of a rule with three passes or more.
MaxGuessesMulti == 1

GuessBound == IF NumPasses > 2 THEN MaxGuessesMulti ELSE MaxGuesses

GuessSeqs(pool) ==
  UNION { { s \in [1..n -> pool] : \A i, j \in 1..n : i < j => s[i] # s[j] }
          : n \in 0..GuessBound }

\* souper::getConstants: the constants of a guess left to synthesize.
getConstants(Guess) ==
  {I \in collectInsts(Guess) : I.k = "Var" /\ I.name = "reservedconst"}

\* The widths a read of RHSConsts[0] past the end of an empty vector can give.
GarbageWidths == {W8, W64}

DIdle ==
  /\ dpc = "idle"
  /\ DInput = ParsedReplacement(X, X, <<>>, <<>>)
  /\ SymbolizeNoDFP = FALSE
  /\ pass = 1
  /\ target = Null
  /\ Guesses = <<>>
  /\ gi = 1
  /\ WithoutConsts = <<>>
  /\ Preconditions = <<>>
  /\ Utility = <<>>
  /\ Idx = <<>>
  /\ CandMap = <<>>
  /\ dOut = <<>>
  /\ basis = <<>>
  /\ support = <<>>

DInit ==
  /\ dpc = "pass"
  /\ DInput \in DInputRules
  /\ SymbolizeNoDFP \in BOOLEAN
  /\ pass = 1
  /\ target = Null
  /\ Guesses = <<>>
  /\ gi = 1
  /\ WithoutConsts = <<>>
  /\ Preconditions = <<>>
  /\ Utility = <<>>
  /\ Idx = <<>>
  /\ CandMap = <<>>
  /\ dOut = <<>>
  /\ basis = <<>>
  /\ support = <<>>

\* Lines 98-120 of a pass: the fake constants, the guesses, the LHS.
PassStart(tgt, G) ==
  /\ dpc = "pass"
  /\ target' = tgt
  /\ Guesses' = G
  /\ gi' = 1
  /\ WithoutConsts' = <<>>
  /\ Preconditions' = <<>>
  /\ basis' = <<>>
  /\ dpc' = "synth"
  /\ UNCHANGED <<DInput, SymbolizeNoDFP, pass, Utility, Idx, CandMap, dOut, support>>

\* RHSConsts[0] on an empty vector is a read past its end: the process may
\* die there.
PassCrash ==
  /\ dpc = "pass"
  /\ RHSConsts = <<>>
  /\ dpc' = "crashed"
  /\ UNCHANGED <<DInput, SymbolizeNoDFP, pass, target, Guesses, gi, WithoutConsts,
                 Preconditions, Utility, Idx, CandMap, dOut, basis, support>>

\* What ConstantSynthesis::synthesize hands back: an error code and
\* ResultConstMap, empty or with a value for every constant.
ConstValues == {0, 1}

SynthAnswers(ConstSet) ==
  { [EC |-> "ok", map |-> <<>>], [EC |-> "error", map |-> <<>>] }
    \cup { [EC |-> "ok", map |-> [h \in ConstSet |-> v]] : v \in ConstValues }

\* A CandidateReplacement built from (Origin, Mapping) alone: no PCs, no BPCs.
CandidateReplacement(l, r) ==
  [Mapping |-> InstMapping(l, r), PCs |-> <<>>, BPCs |-> <<>>]

\* The facts written into a candidate's Vars when it is pushed: the code
\* that wrote them (lines 208-218) is commented out.
NothingCarried == [KB |-> <<>>, CR |-> <<>>]

\* The record of how a candidate's validity was established: the pass, the
\* place of its guess (0 for a synthesized constant), the path conditions the
\* query was given, the facts it returned, and the facts written into the
\* candidate's Vars when it was pushed.
Support(p, i, ans, carried) ==
  [pass |-> p, idx |-> i, PCs |-> DInput.PCs, BPCs |-> DInput.BPCs,
   KB |-> ans.KB, CR |-> ans.CR, carried |-> carried]

AvoidNopsUnset == FALSE

\* /*AvoidNops=*/ of the call of lines 133-136.
AvoidNops == TRUE

\* A synthesized candidate that rewrites the input to itself: the model the
\* Constant Solver rejects when it is told to avoid no-ops.
Degenerate(Cand) == Cand.Mapping = DInput.Mapping

\* One turn of the loop of lines 122-152, on Guesses[gi].
SynthStep(ans) ==
  /\ dpc = "synth"
  /\ gi <= Len(Guesses)
  /\ LET Guess == Guesses[gi]
         ConstSet == getConstants(Guess)
         RHS == DRHS(pass, target, Guess)
     IN IF ConstSet # {}
        THEN /\ ans \in SynthAnswers(ConstSet)
             /\ IF DOMAIN ans.map # {}
                THEN LET Cand == CandidateReplacement(DLHS(pass),
                            getInstCopy(RHS, [h \in DOMAIN ans.map |-> Const(ans.map[h], h.w)]))
                     IN /\ AvoidNops => ~Degenerate(Cand)
                        /\ CandMap' = Append(CandMap, Cand)
                        /\ support' = Append(support, Support(pass, 0, NoInference, NothingCarried))
                ELSE UNCHANGED <<CandMap, support>>
             /\ UNCHANGED WithoutConsts
        ELSE /\ ans = [EC |-> "ok", map |-> <<>>]
             /\ WithoutConsts' = Append(WithoutConsts, Guess)
             /\ UNCHANGED <<CandMap, support>>
  /\ gi' = gi + 1
  /\ UNCHANGED <<dpc, DInput, SymbolizeNoDFP, pass, target, Guesses, Preconditions,
                 Utility, Idx, dOut, basis>>

\* Line 153, once the first loop is over.
SwapGuesses ==
  /\ dpc = "synth"
  /\ gi > Len(Guesses)
  /\ Guesses' = WithoutConsts
  /\ WithoutConsts' = Guesses
  /\ gi' = 1
  /\ dpc' = "infer"
  /\ UNCHANGED <<DInput, SymbolizeNoDFP, pass, target, Preconditions, Utility, Idx,
                 CandMap, dOut, basis, support>>

\* The variables of the candidates of pass p.
CandVars(p) == VarsOf(ParsedReplacement(DInput.Mapping.LHS, DInput.Mapping.RHS, DInput.PCs, DInput.BPCs))
                 \cup Range(FakeConsts(p))

AnyVar(p) == CHOOSE v \in VarsOf(ParsedReplacement(DInput.Mapping.LHS, DInput.Mapping.LHS, <<>>, <<>>)) : TRUE

\* Lines 170-174: what the guess is overwritten with.
Survivor(FoundWP, RHS) == IF ~FoundWP THEN Null ELSE RHS

\* The three locals after lines 161-168, and whether line 167 was reached.
Basis(ans, asked) ==
  [FoundWP |-> ans.FoundWP, KB |-> ans.KB, CR |-> ans.CR, asked |-> asked]

\* One turn of the loop of lines 155-175, on Guesses[gi].
InferStep(ans) ==
  /\ dpc = "infer"
  /\ gi <= Len(Guesses)
  /\ IF ~SymbolizeNoDFP
     THEN ans \in InferAnswers(CandVars(pass), AnyVar(pass))
     ELSE ans = NoInference
  /\ Preconditions' = Append(Preconditions, ans.KB)
  /\ basis' = Append(basis, Basis(ans, ~SymbolizeNoDFP))
  /\ Guesses' = [Guesses EXCEPT ![gi] = Survivor(ans.FoundWP, DRHS(pass, target, Guesses[gi]))]
  /\ gi' = gi + 1
  /\ UNCHANGED <<dpc, DInput, SymbolizeNoDFP, pass, target, WithoutConsts, Utility, Idx,
                 CandMap, dOut, support>>

\* countPopulation
PopCount(bits) == Cardinality(bits)

PairUtilityZerosOnly(P) == P.w - PopCount(P.Zero)

\* Lines 191-193, for one variable of one disjunct.
PairUtility(P) == (P.w - PopCount(P.Zero)) + (P.w - PopCount(P.One))

RECURSIVE SumOver(_, _)
SumOver(S, f) ==
  IF S = {} THEN 0
  ELSE LET v == CHOOSE v \in S : TRUE IN PairUtility(f[v]) + SumOver(S \ {v}, f)

RECURSIVE SumDisjuncts(_)
SumDisjuncts(Vs) ==
  IF Vs = <<>> THEN 0 ELSE SumOver(DOMAIN Head(Vs), Head(Vs)) + SumDisjuncts(Tail(Vs))

\* "High magic number"
Unconditional == 1000

\* Lines 182-196, for one guess.
UtilityOf(Guess, Pre) ==
  IF Guess = Null THEN 0
  ELSE (IF Pre = <<>> THEN Unconditional ELSE 0) + SumDisjuncts(Pre)

\* Lines 198-200: std::sort is not stable, so any order of the indices with
\* nonincreasing utility may come out.
SortedIdx(U) ==
  { s \in [DOMAIN U -> DOMAIN U] :
      \A i, j \in DOMAIN U : i < j => s[i] # s[j] /\ U[s[i]] >= U[s[j]] }

\* Line 203: what is pushed to Results.
Emitted(Pre, Guess) == Pre = <<>> /\ Guess # Null

\* Lines 177-200: the utilities and the sorted indices.
Rank(s) ==
  /\ dpc = "infer"
  /\ gi > Len(Guesses)
  /\ LET U == [i \in DOMAIN Guesses |-> UtilityOf(Guesses[i], Preconditions[i])]
     IN /\ s \in SortedIdx(U)
        /\ Utility' = U
        /\ Idx' = s
  /\ dpc' = "emit"
  /\ UNCHANGED <<DInput, SymbolizeNoDFP, pass, target, Guesses, gi, WithoutConsts,
                 Preconditions, CandMap, dOut, basis, support>>

\* The indices of Idx, in order, whose guess is emitted.
EmittedIdx == SelectSeq(Idx, LAMBDA i : Emitted(Preconditions[i], Guesses[i]))

\* Lines 202-206 and the return of the pass (its locals are gone), then the
\* next pass, or the printing of lines 240-243.
EmitRanked ==
  /\ dpc = "emit"
  /\ LET E == EmittedIdx
         NewCands == [k \in DOMAIN E |-> CandidateReplacement(DLHS(pass), Guesses[E[k]])]
         NewSupport == [k \in DOMAIN E |-> Support(pass, E[k], basis[E[k]], NothingCarried)]
     IN /\ CandMap' = CandMap \o NewCands
        /\ support' = support \o NewSupport
        /\ IF pass < NumPasses
           THEN /\ dpc' = "pass"
                /\ dOut' = dOut
           ELSE /\ dpc' = "done"
                /\ dOut' = CandMap \o NewCands
  /\ pass' = pass + 1
  /\ target' = Null
  /\ Guesses' = <<>>
  /\ gi' = 1
  /\ WithoutConsts' = <<>>
  /\ Preconditions' = <<>>
  /\ Utility' = <<>>
  /\ Idx' = <<>>
  /\ basis' = <<>>
  /\ UNCHANGED <<DInput, SymbolizeNoDFP>>

\* =========================================================== The commands

VARIABLES
  tool,      \* the main that runs: generalize, matcher-gen (none for one transform)
  Asserts,   \* the build keeps assert and llvm_unreachable (no NDEBUG)
  garbage,   \* the width the build's code gives where llvm_unreachable stood
  ReadFails, \* getFileOrSTDIN fails
  ErrStr,    \* ParseReplacements reports an error
  Flags,     \* the options of the command line that are set
  Inputs,    \* what ParseReplacements returned
  mpc,       \* read, loop, enter, width, exited, aborted, crashed
  mk,        \* the place in Inputs of the item in turn, from 1
  wi,        \* i of the loop of GeneralizeBitWidth
  nvars,     \* the Vars the InstContext has created
  ran,       \* the transforms main called, in order: [t, item]
  wOut,      \* the pairs GeneralizeBitWidth wrote: [item, w, LHS, RHS]
  mOut,      \* what matcher-gen wrote to standard output: [t, K, n]
  Last,      \* matcher-gen: the LHS kind of the item before
  first,     \* matcher-gen: no block was opened yet
  optnumber, \* matcher-gen: matchers generated so far
  reported,  \* the items for which something was written to standard error
  status     \* the exit status: running, 0, 1, signal

mvars == <<tool, Asserts, garbage, ReadFails, ErrStr, Flags, Inputs, mpc, mk, wi, nvars,
           ran, wOut, mOut, Last, first, optnumber, reported, status>>

\* A one-bit variable.
X1 == Var("x", 0, 1)

\* The most items of an input file in the model.
MaxBatch == 2

\* The rules an input file is made of: one free variable (no operator, one
\* operator, a comparison under an operator), no free variable, two free
\* variables and a path condition, a constant in the RHS only, an operator
\* InferWidth has no case for.
MainRules ==
  { ParsedReplacement(X, X, <<>>, <<>>),
    ParsedReplacement(Op("And", W8, <<X, X>>), X, <<>>, <<>>),
    ParsedReplacement(Op("And", 1, <<X1, Op("Ule", 1, <<X1, X1>>)>>), X1, <<>>, <<>>),
    ParsedReplacement(Op("Add", W8, <<Const(1, W8), Const(1, W8)>>), Const(2, W8), <<>>, <<>>),
    ParsedReplacement(Op("Add", W8, <<X, Y>>), Op("Add", W8, <<Y, X>>),
                      <<InstMapping(Op("Ult", 1, <<X, Y>>), Const(1, 1))>>, <<>>),
    ParsedReplacement(Op("Xor", W8, <<X, X>>), Const(0, W8), <<>>, <<>>),
    ParsedReplacement(Op("Sub", W8, <<Op("Shl", W8, <<X, X>>), Op("Shl", W8, <<X, X>>)>>),
                      Op("Xor", W8, <<X, X>>), <<>>, <<>>) }

Batches == UNION { [1..n -> MainRules] : n \in 0..MaxBatch }

\* The transforms generalize's main can be asked for, in the order it calls them.
Transforms == <<"FixIt", "Reduce", "SymbolizeConstant", "GeneralizeWidth">>

GeneralizeFlags ==
  { {"GeneralizeWidth"}, {"Reduce", "GeneralizeWidth"}, {"FixIt", "SymbolizeConstant"} }

MatcherFlags == { {}, {"IgnorePCs"} }

\* What comes out of llvm_unreachable in a build without assertions.
UnreachableWidths == {0, W8}

MIdle ==
  /\ tool = "none" /\ Asserts = TRUE /\ garbage = 0 /\ ReadFails = FALSE /\ ErrStr = FALSE
  /\ Flags = {} /\ Inputs = <<>> /\ mpc = "idle" /\ mk = 1 /\ wi = 1 /\ nvars = 0
  /\ ran = <<>> /\ wOut = <<>> /\ mOut = <<>> /\ Last = "None" /\ first = TRUE
  /\ optnumber = 0 /\ reported = {} /\ status = "running"

MInit ==
  /\ tool \in {"generalize", "matcher-gen"}
  /\ Asserts \in (IF tool = "generalize" THEN BOOLEAN ELSE {TRUE})
  /\ garbage \in (IF Asserts THEN {0} ELSE UnreachableWidths)
  /\ ReadFails \in BOOLEAN /\ ErrStr \in BOOLEAN
  /\ ReadFails => ~ErrStr
  /\ Flags \in (IF tool = "generalize" THEN GeneralizeFlags ELSE MatcherFlags)
  /\ Inputs = <<>> /\ mpc = "read" /\ mk = 1 /\ wi = 1 /\ nvars = 0
  /\ ran = <<>> /\ wOut = <<>> /\ mOut = <<>> /\ Last = "None" /\ first = TRUE
  /\ optnumber = 0 /\ reported = {} /\ status = "running"

ExitsOnReadErrorOnly(readFails, errStr) == readFails

\* Lines 446-449 and 458-461 of generalize.cpp, 576-579 and 604-607 of
\* matcher-gen.cpp: the two returns of 1.
ExitsOnError(readFails, errStr) == readFails \/ errStr

\* The Vars the parser created for a file.
ParsedVars(Batch) ==
  Cardinality(UNION { VarsOf(Batch[i]) : i \in DOMAIN Batch })

\* generalize.cpp, main up to its loop (lines 438-463).
MainStart(Batch) ==
  /\ mpc = "read" /\ tool = "generalize"
  /\ Inputs' = IF ReadFails THEN <<>> ELSE Batch
  /\ nvars' = IF ReadFails THEN 0 ELSE ParsedVars(Batch)
  /\ IF ExitsOnError(ReadFails, ErrStr)
     THEN /\ mpc' = "exited" /\ status' = "1"
          /\ reported' = reported \cup {0}
     ELSE /\ mpc' = "loop"
          /\ UNCHANGED <<status, reported>>
  /\ UNCHANGED <<tool, Asserts, garbage, ReadFails, ErrStr, Flags, mk, wi, ran, wOut, mOut,
                 Last, first, optnumber>>

\* The transforms of Flags, in the order main calls them.
Called(item) ==
  [i \in 1..Cardinality(Flags \cap Range(Transforms)) |->
     [t |-> SelectSeq(Transforms, LAMBDA t : t \in Flags)[i], item |-> item]]

\* One turn of main's loop (lines 465-480), up to the call of
\* GeneralizeBitWidth; what the other transforms do is in their own sections.
Dispatch ==
  /\ mpc = "loop" /\ tool = "generalize"
  /\ mk <= Len(Inputs)
  /\ ran' = ran \o Called(mk)
  /\ IF "GeneralizeWidth" \in Flags
     THEN mpc' = "enter" /\ mk' = mk
     ELSE mpc' = "loop" /\ mk' = mk + 1
  /\ UNCHANGED <<tool, Asserts, garbage, ReadFails, ErrStr, Flags, Inputs, wi, nvars, wOut,
                 mOut, Last, first, optnumber, reported, status>>

\* Line 482.
MainReturn ==
  /\ mpc = "loop" /\ tool = "generalize"
  /\ mk > Len(Inputs)
  /\ mpc' = "exited" /\ status' = "0"
  /\ UNCHANGED <<tool, Asserts, garbage, ReadFails, ErrStr, Flags, Inputs, mk, wi, nvars, ran,
                 wOut, mOut, Last, first, optnumber, reported>>

\* ------------------------------------------------- width generalization

\* The kinds InferWidth has a case for.
WidthOfOperand == {"And", "Or", "Xor", "Sub", "Mul", "Add"}
WidthOne == {"Slt", "Sle", "Ult", "Ule"}

\* InferWidth (lines 246-260).  g is what the default case gives.
InferWidth(K, Ops, g) ==
  IF K \in WidthOfOperand THEN Ops[1].w
  ELSE IF K \in WidthOne THEN 1
  ELSE g

\* IC.getVariablesFor: the Vars under root, each once.
getVariablesFor(root) ==
  Dedup(SelectSeq(Preorder(root), LAMBDA I : I.k = "Var"))

WidthMapFromZero(v0, i, I) == IF I = v0 THEN i - 1 ELSE 0

\* WidthMap[I] after line 285: operator[] gives 0 for a key that is not there.
WidthMap(v0, i, I) == IF I = v0 THEN i ELSE 0

\* CloneInst (lines 262-274) for WidthMap = {v0 -> i}, with n Vars created
\* so far: the clone, the Vars created then, and whether llvm_unreachable
\* was reached on the way.
RECURSIVE CloneInst(_, _, _, _, _)
RECURSIVE CloneOps(_, _, _, _, _, _)
CloneOps(Ops, j, v0, i, n, g) ==
  IF j > Len(Ops) THEN [ops |-> <<>>, n |-> n, hit |-> FALSE]
  ELSE LET h == CloneInst(Ops[j], v0, i, n, g)
           t == CloneOps(Ops, j + 1, v0, i, h.n, g)
       IN [ops |-> <<h.inst>> \o t.ops, n |-> t.n, hit |-> h.hit \/ t.hit]

CloneInst(I, v0, i, n, g) ==
  IF I.k = "Var"
  THEN [inst |-> Var(I.name, n, WidthMap(v0, i, I)), n |-> n + 1, hit |-> FALSE]
  ELSE IF I.k = "Const"
  THEN [inst |-> Const(I.val, g), n |-> n, hit |-> TRUE]
  ELSE LET r == CloneOps(I.ops, 1, v0, i, n, g)
       IN [inst |-> Op(I.k, InferWidth(I.k, r.ops, g), r.ops),
           n |-> r.n,
           hit |-> r.hit \/ I.k \notin (WidthOfOperand \cup WidthOne)]

\* for (int i = 1; i < 64; ++i)
WidthEnd == 64

\* What assert does with a condition that is false.
Asserted(cond) == Asserts /\ ~cond

\* GeneralizeBitWidth up to its loop (lines 276-282).
GeneralizeBitWidthEnter ==
  /\ mpc = "enter"
  /\ IF Asserted(Len(getVariablesFor(Inputs[mk].Mapping.LHS)) = 1)
     THEN /\ mpc' = "aborted" /\ status' = "signal"
          /\ reported' = reported \cup {mk}
     ELSE /\ mpc' = "width"
          /\ UNCHANGED <<status, reported>>
  /\ wi' = 1
  /\ UNCHANGED <<tool, Asserts, garbage, ReadFails, ErrStr, Flags, Inputs, mk, nvars, ran,
                 wOut, mOut, Last, first, optnumber>>

\* One turn of the loop of lines 284-294, and the return to main after the
\* last.  Vars[0] of an empty vector and llvm_unreachable without assertions
\* are undefined: the process dies there (dies), or goes on with what it
\* finds.
WidthStep(dies) ==
  /\ mpc = "width"
  /\ LET Vars == getVariablesFor(Inputs[mk].Mapping.LHS)
         v0 == IF Vars = <<>> THEN Null ELSE Vars[1]
         L == CloneInst(Inputs[mk].Mapping.LHS, v0, wi, nvars, garbage)
         R == CloneInst(Inputs[mk].Mapping.RHS, v0, wi, L.n, garbage)
         undefined == Vars = <<>> \/ L.hit \/ R.hit
     IN IF Asserts /\ (L.hit \/ R.hit)
        THEN /\ ~dies
             /\ mpc' = "aborted" /\ status' = "signal"
             /\ reported' = reported \cup {mk}
             /\ UNCHANGED <<mk, wi, nvars, wOut>>
        ELSE IF dies
        THEN /\ undefined
             /\ mpc' = "crashed" /\ status' = "signal"
             /\ UNCHANGED <<mk, wi, nvars, wOut, reported>>
        ELSE /\ wOut' = Append(wOut, [item |-> mk, w |-> wi, LHS |-> L.inst, RHS |-> R.inst])
             /\ nvars' = R.n
             /\ IF wi + 1 < WidthEnd
                THEN wi' = wi + 1 /\ UNCHANGED <<mpc, mk>>
                ELSE wi' = 1 /\ mpc' = "loop" /\ mk' = mk + 1
             /\ UNCHANGED <<status, reported>>
  /\ UNCHANGED <<tool, Asserts, garbage, ReadFails, ErrStr, Flags, Inputs, ran, mOut, Last,
                 first, optnumber>>

\* ----------------------------------------------------------- matcher-gen

\* Inst::Kind in the order of the enumeration, for the kinds of the model.
KindOrder == <<"None", "Const", "Var", "Add", "Sub", "Mul", "And", "Or", "Xor", "Shl",
               "Eq", "Ult", "Slt", "Ule", "Sle">>

\* Lines 589-602: std::sort by the kind of the LHS root; any order of the
\* items with nondecreasing kinds may come out.
SortedByKind(Batch) ==
  { s \in [DOMAIN Batch -> Range(Batch)] :
      /\ \E f \in [DOMAIN Batch -> DOMAIN Batch] :
           /\ \A i, j \in DOMAIN Batch : i # j => f[i] # f[j]
           /\ \A i \in DOMAIN Batch : s[i] = Batch[f[i]]
      /\ \A i, j \in DOMAIN s :
           i < j => IndexOf(KindOrder, s[i].Mapping.LHS.k) <= IndexOf(KindOrder, s[j].Mapping.LHS.k) }

\* matcher-gen.cpp, main up to its loop (lines 559-613).
MatcherStart(Batch, Sorted) ==
  /\ mpc = "read" /\ tool = "matcher-gen"
  /\ Sorted \in SortedByKind(Batch)
  /\ Inputs' = IF ReadFails THEN <<>> ELSE Sorted
  /\ nvars' = IF ReadFails THEN 0 ELSE ParsedVars(Batch)
  /\ IF ExitsOnError(ReadFails, ErrStr)
     THEN /\ mpc' = "exited" /\ status' = "1"
          /\ reported' = reported \cup {0}
     ELSE /\ mpc' = "loop"
          /\ UNCHANGED <<status, reported>>
  /\ UNCHANGED <<tool, Asserts, garbage, ReadFails, ErrStr, Flags, mk, wi, ran, wOut, mOut,
                 Last, first, optnumber>>

Token(t, K, n) == [t |-> t, K |-> K, n |-> n]

\* Lines 616-621: the items the loop passes over.  The rules of the model
\* carry no demanded bits and no known bits, so the filter of -ignore-df
\* (lines 622-645) passes them all.
Filtered(In) ==
  \/ ("IgnorePCs" \in Flags /\ In.PCs # <<>>)
  \/ In.Mapping.LHS = In.Mapping.RHS

\* Lines 648-714: the block of a new LHS kind is opened, the one before closed.
Dispatched(K) ==
  IF K # Last
  THEN (IF ~first THEN <<Token("close", "", 0)>> ELSE <<>>) \o <<Token("open", K, 0)>>
  ELSE <<>>

\* One turn of the loop of lines 615-739.  ok is what GenMatcher returns,
\* listed whether the list file, if there is one, names the matcher.
MatchStep(ok, listed) ==
  /\ mpc = "loop" /\ tool = "matcher-gen"
  /\ mk <= Len(Inputs)
  /\ LET In == Inputs[mk]
         K == In.Mapping.LHS.k
     IN IF Filtered(In)
        THEN /\ ok /\ listed
             /\ UNCHANGED <<mOut, Last, first, optnumber, reported, ran>>
        ELSE /\ Last' = K
             /\ first' = (first /\ K = Last)
             /\ ran' = Append(ran, [t |-> "GenMatcher", item |-> mk])
             /\ IF ok
                THEN /\ optnumber' = optnumber + 1
                     /\ IF listed
                        THEN /\ mOut' = mOut \o Dispatched(K) \o <<Token("opt", K, optnumber)>>
                             /\ UNCHANGED reported
                        ELSE /\ mOut' = mOut \o Dispatched(K)
                             /\ reported' = reported \cup {mk}
                ELSE /\ listed
                     /\ mOut' = mOut \o Dispatched(K)
                     /\ reported' = reported \cup {mk}
                     /\ UNCHANGED optnumber
  /\ mk' = mk + 1
  /\ UNCHANGED <<tool, Asserts, garbage, ReadFails, ErrStr, Flags, Inputs, mpc, wi, nvars,
                 wOut, status>>

\* Lines 740-743: the last block is closed and main returns.
MatcherReturn ==
  /\ mpc = "loop" /\ tool = "matcher-gen"
  /\ mk > Len(Inputs)
  /\ mOut' = Append(mOut, Token("close", "", 0))
  /\ mpc' = "exited" /\ status' = "0"
  /\ UNCHANGED <<tool, Asserts, garbage, ReadFails, ErrStr, Flags, Inputs, mk, wi, nvars, ran,
                 wOut, Last, first, optnumber, reported>>

\* ============================================== matcher-gen: GenMatcher

VARIABLES
  gk,             \* the item of GInputs main's loop is at
  GInputs,        \* the rules main calls GenMatcher on, in its order
  Visited,        \* the static set of GenDomConstraints (line 223)
  Constraints     \* per item, the nodes a DomCheck was pushed for, in order

gvars == <<gk, GInputs, Visited, Constraints>>

\* The rules of one run that main hands to GenMatcher, at most.
MaxRun == 3

\* 1 + 1: a node with no Var under it, interned once for the whole Context.
OnePlusOne == Op("Add", W8, <<Const(1, W8), Const(1, W8)>>)

\* A Var of the n-th rule of the file; every rule has Vars of its own.
VarOf(n) == Var("x", n, W8)

\* Rules for matcher-gen: three commuting an operator over x and 1 + 1, one
\* with a Var for RHS, one over two Vars, one with a Var for LHS.
MatcherRules ==
  { ParsedReplacement(Op("Add", W8, <<OnePlusOne, VarOf(1)>>),
                      Op("Add", W8, <<VarOf(1), OnePlusOne>>), <<>>, <<>>),
    ParsedReplacement(Op("Mul", W8, <<OnePlusOne, VarOf(2)>>),
                      Op("Mul", W8, <<VarOf(2), OnePlusOne>>), <<>>, <<>>),
    ParsedReplacement(Op("Xor", W8, <<OnePlusOne, VarOf(3)>>),
                      Op("Xor", W8, <<VarOf(3), OnePlusOne>>), <<>>, <<>>),
    ParsedReplacement(Op("And", W8, <<VarOf(4), VarOf(4)>>), VarOf(4), <<>>, <<>>),
    ParsedReplacement(Op("Add", W8, <<VarOf(5), VarOf(6)>>),
                      Op("Add", W8, <<VarOf(6), VarOf(5)>>), <<>>, <<>>),
    ParsedReplacement(VarOf(7), Op("Or", W8, <<VarOf(7), VarOf(7)>>), <<>>, <<>>) }

\* The inputs after the sort of lines 589-602, each rule of the file once.
Runs ==
  UNION { { s \in [1..n -> MatcherRules] :
              /\ \A i, j \in 1..n : i < j => s[i] # s[j]
              /\ \A i, j \in 1..n :
                   i < j => IndexOf(KindOrder, s[i].Mapping.LHS.k)
                              <= IndexOf(KindOrder, s[j].Mapping.LHS.k) }
          : n \in 0..MaxRun }

GIdle == gk = 1 /\ GInputs = <<>> /\ Visited = {} /\ Constraints = <<>>

GInit == gk = 1 /\ GInputs \in Runs /\ Visited = {} /\ Constraints = <<>>

\* The kinds of MatchOps (lines 46-79), of those the model has.
MatchOps == {"Add", "Sub", "Mul", "Shl", "And", "Or", "Xor", "Eq", "Ult", "Slt", "Ule", "Sle"}

\* Whether GenLHSMatcher (lines 308-361) returns true.
RECURSIVE GenLHSMatcher(_)
GenLHSMatcher(I) ==
  /\ I.k \in MatchOps
  /\ \A j \in DOMAIN I.ops : I.ops[j].k \in {"Const", "Var"} \/ GenLHSMatcher(I.ops[j])

\* The keys of Syms after InitSymbolTable (lines 404-494): the Vars of the
\* LHS, the nodes of the RHS that are nodes of the LHS, and the root.
InitSymbolTable(Root, RHS) ==
  {I \in collectInsts(Root) : I.k = "Var"}
    \cup (collectInsts(RHS) \cap collectInsts(Root))
    \cup {Root}

\* GenDomConstraints (lines 222-238); st holds Visited and Constraints.
RECURSIVE GenDomConstraints(_, _, _)
RECURSIVE GenDomOperands(_, _, _, _)
GenDomOperands(Ops, j, Syms, st) ==
  IF j > Len(Ops) THEN st
  ELSE GenDomOperands(Ops, j + 1, Syms,
         IF Ops[j].k # "Const" /\ Ops[j] \in Syms /\ Ops[j] \notin st.Visited
         THEN GenDomConstraints(Ops[j], Syms,
                                [st EXCEPT !.Constraints = Append(@, Ops[j])])
         ELSE st)

GenDomConstraints(RHS, Syms, st) ==
  GenDomOperands(RHS.ops, 1, Syms, [st EXCEPT !.Visited = @ \cup {RHS}])

\* GenMatcher (lines 497-542) on the next item, as far as its dominance
\* checks go: nothing is generated when GenLHSMatcher fails.
GenMatcher ==
  /\ gk <= Len(GInputs)
  /\ LET In == GInputs[gk]
         Syms == InitSymbolTable(In.Mapping.LHS, In.Mapping.RHS)
         st == IF GenLHSMatcher(In.Mapping.LHS)
               THEN GenDomConstraints(In.Mapping.RHS, Syms,
                                      [Visited |-> Visited, Constraints |-> <<>>])
               ELSE [Visited |-> Visited, Constraints |-> <<>>]
     IN /\ Visited' = st.Visited
        /\ Constraints' = Append(Constraints, st.Constraints)
  /\ gk' = gk + 1
  /\ UNCHANGED GInputs

\* ============================================================ InfixPrinter

VARIABLES
  ipc,                \* where operator() is: pcs, lhs, rhs, done (idle elsewhere)
  InfixP,             \* P, the rule to print
  ShowImplicitWidths,
  LeftFirst,          \* whether the build evaluates the left printInst of line 390 first
  InfixSyms,          \* Syms: the number N of the name varN given to a node
  infixVarnum,        \* varnum
  VisitedVars,
  Stream,             \* what has been written to S, token by token
  Returned            \* every return of printInst so far, with the names defined by then

ivars == <<ipc, InfixP, ShowImplicitWidths, LeftFirst, InfixSyms, infixVarnum, VisitedVars,
           Stream, Returned>>

\* A piece of text: what it is, and the number or the name in it.
Text(t, n, s) == [t |-> t, n |-> n, s |-> s]

AllOnes(w) == 2 ^ w - 1

NotX == Op("Xor", W8, <<X, Const(AllOnes(W8), W8)>>)
SymConst == Var("symconst_0", 2, W8)

\* The rules handed to the printer.
InfixRules ==
  { ParsedReplacement(Op("Add", W8, <<X, Y>>), Op("Add", W8, <<Y, X>>),
                      <<InstMapping(Op("Ult", 1, <<X, Y>>), Const(1, 1))>>, <<>>),
    ParsedReplacement(Op("Or", W8, <<NotX, NotX>>), NotX, <<>>, <<>>),
    ParsedReplacement(Op("Sub", W8, <<Op("Shl", W8, <<X, X>>), Op("Shl", W8, <<X, X>>)>>),
                      Op("Xor", W8, <<X, X>>), <<>>, <<>>),
    ParsedReplacement(Op("Add", W8, <<Op("Mul", W8, <<X, Const(2, W8)>>), Const(1, W8)>>),
                      Op("Or", W8, <<Op("Shl", W8, <<X, Const(1, W8)>>), Const(1, W8)>>),
                      <<>>, <<>>),
    ParsedReplacement(Op("Xor", W8, <<Const(AllOnes(W8), W8), X>>),
                      Op("Sub", W8, <<Const(AllOnes(W8), W8), X>>), <<>>, <<>>),
    ParsedReplacement(Op("And", W8, <<X, X>>), X, <<>>, <<>>),
    ParsedReplacement(Op("Xor", W8, <<X, X>>), Const(0, W8), <<>>, <<>>),
    ParsedReplacement(Op("Add", W8, <<X, SymConst>>), Op("Add", W8, <<SymConst, X>>),
                      <<>>, <<>>),
    ParsedReplacement(Op("Ule", 1, <<Y, X>>), Const(1, 1),
                      <<InstMapping(Op("Ult", 1, <<X, Y>>), Const(0, 1))>>, <<>>),
    ParsedReplacement(Op("Sub", W8, <<X, Y>>), Const(0, W8),
                      <<InstMapping(X, Y),
                        InstMapping(Op("Ule", 1, <<X, Y>>), Const(1, 1))>>, <<>>) }

\* countUses from the root I: how often it counts the node T.
RECURSIVE countUses(_, _)
RECURSIVE countOperands(_, _, _)
countOperands(I, j, T) ==
  IF j > Len(I.ops) THEN 0
  ELSE (IF I.ops[j] = T /\ T.k \notin {"Var", "Const"} THEN 1 ELSE 0)
         + countUses(I.ops[j], T) + countOperands(I, j + 1, T)

countUses(I, T) == countOperands(I, 1, T)

RECURSIVE countPCs(_, _, _)
countPCs(R, j, T) ==
  IF j > Len(R.PCs) THEN 0
  ELSE countUses(R.PCs[j].LHS, T) + countUses(R.PCs[j].RHS, T) + countPCs(R, j + 1, T)

\* UseCount[T] as the constructor leaves it.
UseCount(T) ==
  countUses(InfixP.Mapping.LHS, T) + countUses(InfixP.Mapping.RHS, T) + countPCs(InfixP, 1, T)

IIdle ==
  /\ ipc = "idle" /\ InfixP = ParsedReplacement(X, X, <<>>, <<>>)
  /\ ShowImplicitWidths = TRUE /\ LeftFirst = TRUE
  /\ InfixSyms = {} /\ infixVarnum = 0 /\ VisitedVars = {} /\ Stream = <<>> /\ Returned = <<>>

\* The printer as constructed.
IInit ==
  /\ ipc = "pcs" /\ InfixP \in InfixRules
  /\ ShowImplicitWidths \in BOOLEAN /\ LeftFirst \in BOOLEAN
  /\ InfixSyms = {} /\ infixVarnum = 0 /\ VisitedVars = {} /\ Stream = <<>> /\ Returned = <<>>

\* The names 'let' statements of the stream s define.
Defined(s) == {s[i].n : i \in {j \in DOMAIN s : s[j].t = "let"}}

\* A return of printInst with the text str, in the state st.
Returns(str, st) ==
  [str |-> str,
   st |-> [st EXCEPT !.Returned = Append(@, [str |-> str, defined |-> Defined(st.Stream)])]]

\* Lines 280-285.
PrintedConst(I) == IF I.val <= 16 THEN Text("dec", I.val, "") ELSE Text("hex", I.val, "0x")

\* Lines 287-293.
PrintedName(Name) ==
  IF Name = "symconst_0" THEN Text("name", 0, "C0") ELSE Text("name", 0, Name)

\* Lines 320-326; the Vars of the model carry no fact, and no width
\* constraint is registered for them.
PrintedWidth(I) == IF ShowImplicitWidths THEN <<Text(":i", I.w, "")>> ELSE <<>>

\* Lines 330-365.
OpSymbol(K) ==
  CASE K = "Add" -> "+" [] K = "Sub" -> "-" [] K = "Mul" -> "*" [] K = "And" -> "&"
    [] K = "Or" -> "|" [] K = "Xor" -> "^" [] K = "Shl" -> "<<" [] K = "Eq" -> "=="
    [] K = "Ult" -> "<u" [] K = "Slt" -> "<s" [] K = "Ule" -> "<=u" [] K = "Sle" -> "<=s"
    [] OTHER -> K

isCommutative(K) == K \in {"Add", "Mul", "And", "Or", "Xor", "Eq"}

\* The names of the model in the order of std::string's operator<.
NameOrder == <<"symconst_0", "x", "y">>

\* The comparison of lines 372-386.
Before(A, B) ==
  IF A.k = "Const" THEN FALSE
  ELSE IF B.k = "Const" THEN TRUE
  ELSE IF A.k = "Var" /\ B.k # "Var" THEN TRUE
  ELSE IF A.k # "Var" /\ B.k = "Var" THEN FALSE
  ELSE IF A.k = "Var" /\ B.k = "Var" THEN IndexOf(NameOrder, A.name) > IndexOf(NameOrder, B.name)
  ELSE IndexOf(KindOrder, A.k) < IndexOf(KindOrder, B.k)

\* Lines 369-387, for two operands.
SortedOps(I) ==
  IF isCommutative(I.k) /\ Before(I.ops[2], I.ops[1]) THEN <<I.ops[2], I.ops[1]>> ELSE I.ops

NameOf(I, st) == (CHOOSE e \in st.InfixSyms : e.I = I).n

\* printInst (lines 256-418); st holds Syms, varnum, VisitedVars, the stream
\* and the returns.
RECURSIVE InfixPrintInst(_, _, _)
InfixPrintInst(I, Root, st) ==
  IF \E e \in st.InfixSyms : e.I = I
  THEN Returns(<<Text("var", NameOf(I, st), "")>>, st)
  ELSE
    LET named == UseCount(I) > 1
        N == st.infixVarnum
        s1 == IF named
              THEN [st EXCEPT !.InfixSyms = @ \cup {[I |-> I, n |-> N]}, !.infixVarnum = @ + 1]
              ELSE st
    IN IF I.k = "Xor" /\ I.ops[2].k = "Const" /\ I.ops[2].val = AllOnes(I.ops[2].w)
       THEN LET r == InfixPrintInst(I.ops[1], FALSE, s1)
            IN Returns(<<Text("~", 0, "")>> \o r.str, r.st)
       ELSE IF I.k = "Xor" /\ I.ops[1].k = "Const" /\ I.ops[1].val = AllOnes(I.ops[1].w)
       THEN LET r == InfixPrintInst(I.ops[2], FALSE, s1)
            IN Returns(<<Text("~", 0, "")>> \o r.str, r.st)
       ELSE IF I.k = "Const"
       THEN Returns(<<PrintedConst(I)>>, s1)
       ELSE IF I.k = "Var"
       THEN IF I.name \in s1.VisitedVars
            THEN Returns(<<PrintedName(I.name)>>, s1)
            ELSE Returns(<<PrintedName(I.name)>> \o PrintedWidth(I),
                        [s1 EXCEPT !.VisitedVars = @ \cup {I.name}])
       ELSE
         LET Ops == SortedOps(I)
             a1 == InfixPrintInst(Ops[1], FALSE, s1)
             b1 == InfixPrintInst(Ops[2], FALSE, a1.st)
             b2 == InfixPrintInst(Ops[2], FALSE, s1)
             a2 == InfixPrintInst(Ops[1], FALSE, b2.st)
             a == IF LeftFirst THEN a1 ELSE a2
             b == IF LeftFirst THEN b1 ELSE b2
             s2 == IF LeftFirst THEN b1.st ELSE a2.st
             Meat == a.str \o <<Text("op", 0, OpSymbol(I.k))>> \o b.str
             Result == IF Root THEN Meat
                       ELSE <<Text("(", 0, "")>> \o Meat \o <<Text(")", 0, "")>>
         IN IF named
            THEN Returns(<<Text("var", N, "")>>,
                        [s2 EXCEPT !.Stream = @ \o <<Text("let", N, "")>> \o Result
                                                \o <<Text(";", 0, "")>>])
            ELSE Returns(Result, s2)

InfixState ==
  [InfixSyms |-> InfixSyms, infixVarnum |-> infixVarnum, VisitedVars |-> VisitedVars,
   Stream |-> Stream, Returned |-> Returned]

Write(st, str) == [st EXCEPT !.Stream = @ \o str]

\* S << printInst(I, S, Root): the call, then its text on the stream.
WriteInst(I, Root, st) ==
  The({ Write(r.st, r.str) : r \in {InfixPrintInst(I, Root, st)} })

\* printPCs (lines 420-437) from the j-th path condition on.
RECURSIVE printPCsFrom(_, _)
printPCsFrom(j, st) ==
  IF j > Len(InfixP.PCs) THEN st
  ELSE LET PC == InfixP.PCs[j]
           s0 == IF j > 1 THEN Write(st, <<Text("&&", 0, "")>>) ELSE st
       IN printPCsFrom(j + 1,
            IF PC.RHS.k = "Const" /\ PC.RHS.val = 0
            THEN Write(WriteInst(PC.LHS, TRUE, Write(s0, <<Text("!(", 0, "")>>)),
                       <<Text(")", 0, "")>>)
            ELSE IF PC.RHS.k = "Const" /\ PC.RHS.val = 1
            THEN WriteInst(PC.LHS, TRUE, s0)
            ELSE WriteInst(PC.RHS, FALSE,
                           Write(WriteInst(PC.LHS, TRUE, s0), <<Text("==", 0, "")>>)))

Becomes(st) ==
  /\ InfixSyms' = st.InfixSyms /\ infixVarnum' = st.infixVarnum
  /\ VisitedVars' = st.VisitedVars /\ Stream' = st.Stream /\ Returned' = st.Returned

\* operator() (lines 239-254), lines 241-244.
InfixPCs ==
  /\ ipc = "pcs"
  /\ Becomes(IF InfixP.PCs # <<>>
             THEN Write(printPCsFrom(1, InfixState), <<Text("|=", 0, "")>>)
             ELSE InfixState)
  /\ ipc' = "lhs"
  /\ UNCHANGED <<InfixP, ShowImplicitWidths, LeftFirst>>

\* Lines 245-251.
InfixLHS ==
  /\ ipc = "lhs"
  /\ Becomes(Write(WriteInst(InfixP.Mapping.LHS, TRUE, InfixState), <<Text("=>", 0, "")>>))
  /\ ipc' = "rhs"
  /\ UNCHANGED <<InfixP, ShowImplicitWidths, LeftFirst>>

\* Line 253.
InfixRHS ==
  /\ ipc = "rhs"
  /\ Becomes(WriteInst(InfixP.Mapping.RHS, TRUE, InfixState))
  /\ ipc' = "done"
  /\ UNCHANGED <<InfixP, ShowImplicitWidths, LeftFirst>>

vars == <<rvars, fvars, dvars, mvars, gvars, ivars>>

\* A reduce run.
Init == RInit /\ FIdle /\ DIdle /\ MIdle /\ GIdle /\ IIdle

Next ==
  \/ \E ans \in Answers : \E g \in Garbage(ans) :
       UpfrontCheck(ans, g) /\ UNCHANGED <<fvars, dvars, mvars, gvars, ivars>>
  \/ ReduceRecEnter /\ UNCHANGED <<fvars, dvars, mvars, gvars, ivars>>
  \/ \E I \in Todo : \E ans \in Answers : \E g \in Garbage(ans) :
       TryVariant(I, ans, g) /\ UNCHANGED <<fvars, dvars, mvars, gvars, ivars>>
  \/ LoopEnd /\ UNCHANGED <<fvars, dvars, mvars, gvars, ivars>>
  \/ Emit /\ UNCHANGED <<fvars, dvars, mvars, gvars, ivars>>

Spec == Init /\ [][Next]_vars

\* ReduceAndGeneralize is straight-line, synchronous code: a step that can
\* be taken is taken.
LiveSpec == Spec /\ WF_vars(Next)

\* A fix-it run or a symbolize run.
GenInit == RIdle /\ ((FInit /\ DIdle) \/ (FIdle /\ DInit)) /\ MIdle /\ GIdle /\ IIdle

GenNext ==
  \/ \E ans \in InferAnswers(VarsOf(FInput), X) :
       Generalize(ans) /\ UNCHANGED <<rvars, dvars, mvars, gvars, ivars>>
  \/ \E w \in (IF RHSConsts = <<>> THEN GarbageWidths ELSE {RHSConsts[1].w}) :
       \E G \in GuessSeqs(GuessPool(pass, w)) :
         PassStart(IF RHSConsts = <<>> THEN Null ELSE RHSConsts[1], G)
           /\ UNCHANGED <<rvars, fvars, mvars, gvars, ivars>>
  \/ PassCrash /\ UNCHANGED <<rvars, fvars, mvars, gvars, ivars>>
  \/ \E ans \in SynthAnswers({Hole(W8)}) \cup SynthAnswers({Hole(W64)}) :
       SynthStep(ans) /\ UNCHANGED <<rvars, fvars, mvars, gvars, ivars>>
  \/ SwapGuesses /\ UNCHANGED <<rvars, fvars, mvars, gvars, ivars>>
  \/ \E ans \in InferAnswers(CandVars(pass), AnyVar(pass)) \cup {NoInference} :
       InferStep(ans) /\ UNCHANGED <<rvars, fvars, mvars, gvars, ivars>>
  \/ \E s \in [DOMAIN Guesses -> DOMAIN Guesses] : Rank(s) /\ UNCHANGED <<rvars, fvars, mvars, gvars, ivars>>
  \/ EmitRanked /\ UNCHANGED <<rvars, fvars, mvars, gvars, ivars>>

GenSpec == GenInit /\ [][GenNext]_vars

\* A run of one of the two commands on an input file.
MainInit == RIdle /\ FIdle /\ DIdle /\ MInit /\ GIdle /\ IIdle

MainNext ==
  \/ \E Batch \in Batches : MainStart(Batch) /\ UNCHANGED <<rvars, fvars, dvars, gvars, ivars>>
  \/ Dispatch /\ UNCHANGED <<rvars, fvars, dvars, gvars, ivars>>
  \/ GeneralizeBitWidthEnter /\ UNCHANGED <<rvars, fvars, dvars, gvars, ivars>>
  \/ \E dies \in BOOLEAN : WidthStep(dies) /\ UNCHANGED <<rvars, fvars, dvars, gvars, ivars>>
  \/ MainReturn /\ UNCHANGED <<rvars, fvars, dvars, gvars, ivars>>
  \/ \E Batch \in Batches : \E Sorted \in SortedByKind(Batch) :
       MatcherStart(Batch, Sorted) /\ UNCHANGED <<rvars, fvars, dvars, gvars, ivars>>
  \/ \E ok \in BOOLEAN : \E listed \in BOOLEAN :
       MatchStep(ok, listed) /\ UNCHANGED <<rvars, fvars, dvars, gvars, ivars>>
  \/ MatcherReturn /\ UNCHANGED <<rvars, fvars, dvars, gvars, ivars>>

MainSpec == MainInit /\ [][MainNext]_vars

\* The calls of GenMatcher in one run of matcher-gen.
MatcherInit == RIdle /\ FIdle /\ DIdle /\ MIdle /\ GInit /\ IIdle

MatcherNext == GenMatcher /\ UNCHANGED <<rvars, fvars, dvars, mvars, ivars>>

MatcherSpec == MatcherInit /\ [][MatcherNext]_vars

\* One rule printed by an InfixPrinter.
InfixInit == RIdle /\ FIdle /\ DIdle /\ MIdle /\ GIdle /\ IInit

InfixNext ==
  \/ InfixPCs /\ UNCHANGED <<rvars, fvars, dvars, mvars, gvars>>
  \/ InfixLHS /\ UNCHANGED <<rvars, fvars, dvars, mvars, gvars>>
  \/ InfixRHS /\ UNCHANGED <<rvars, fvars, dvars, mvars, gvars>>

InfixSpec == InfixInit /\ [][InfixNext]_vars

\* ===================================================== Reducer: properties

NoDup(s) == \A i, j \in DOMAIN s : i # j => s[i] # s[j]

\* C1: every rule the Reducer records in Results, and every text it emits,
\* is (the text of) a rule for which the solver's validity check answered
\* "valid" for exactly that rule.
C1_RecordedRulesJudgedValid ==
  /\ \A i \in DOMAIN Results : Results[i] \in judged
  /\ \A i \in DOMAIN out : \E R \in judged : getString(R) = out[i]

\* C2: the input rule is checked once, before anything else, and when the
\* solver judges it invalid the procedure reports failure and stops: no
\* ReduceRec call, no variant, no further query, no rule recorded or emitted.
C2_InvalidInputStops ==
  /\ queries = 0 => pc = "start" /\ recCalls = 0 /\ built = 0 /\ out = <<>>
  /\ pc # "start" => upfront # "none"
  /\ upfront = "invalid" =>
       /\ pc = "done" /\ failed
       /\ recCalls = 0 /\ built = 0 /\ queries = 1
       /\ stack = <<>> /\ Results = <<>> /\ out = <<>>

C2_Witness == upfront = "invalid" /\ pc = "done" /\ failed

\* C3: whatever the solver answers, the reduce run ends: ReduceAndGeneralize
\* returns after finitely many ReduceRec calls and validity queries.
C3_ReduceTerminates == <>(pc = "done")

C3_Witness ==
  pc = "done" /\ recCalls >= 4 /\ queries >= 4 /\ errMark.seen /\ ~failed

\* C4: once a validity query has returned a solver error the Reducer aborts
\* its search: the rule being checked is not recorded, not recursed on, and
\* no further query is issued as if the solver had answered.
C4_ErrorAbortsSearch ==
  errMark.seen =>
    /\ Len(Results) = errMark.nres
    /\ recCalls = errMark.rec
    /\ queries = errMark.q

\* C5: a text is explored at most once in a run: DNR only grows, ReduceRec
\* puts its rule's text in DNR first, and a call whose text is already there
\* returns without collecting nodes, building a variant or querying.
C5_ExploredAtMostOnce ==
  [][ /\ DoNotRepeat \subseteq DoNotRepeat'
      /\ NoDup(explored')
      /\ Range(explored') = DoNotRepeat'
      /\ (pc = "enter" /\ getString(Top.rule) \notin DoNotRepeat) =>
            getString(Top.rule) \in DoNotRepeat'
      /\ (pc = "enter" /\ getString(Top.rule) \in DoNotRepeat) =>
            /\ Len(stack') = Len(stack) - 1
            /\ UNCHANGED <<DoNotRepeat, explored, queries, built, varnum, Results>>
    ]_vars

C5_Witness == pc = "done" /\ recCalls > Len(explored) /\ Len(explored) >= 3

\* The parts of C6 that do not depend on the policy: the output is made of
\* the results' texts, none twice, in nondecreasing length.
OutputWellFormed ==
  /\ NoDup(out)
  /\ Range(out) \subseteq DedupedResults
  /\ \A i, j \in DOMAIN out : i < j => length(out[i]) <= length(out[j])
  /\ ReducePrintAll => Range(out) = DedupedResults

Shortest(t) == \A i \in DOMAIN Results : length(t) <= length(getString(Results[i]))

\* C6 (as amended): the output is the results' texts, deduplicated and in
\* nondecreasing length; with print-all every distinct text is emitted;
\* without it, exactly one text is emitted, and no result has a shorter one,
\* when at least one result was recorded, and nothing is emitted when none was.
C6_OutputDedupedSorted ==
  (pc = "done" /\ ~failed) =>
    /\ OutputWellFormed
    /\ (~ReducePrintAll /\ Results # <<>>) => Len(out) = 1 /\ Shortest(out[1])
    /\ Results = <<>> => out = <<>>

C6_Witness ==
  /\ pc = "done" /\ ~failed /\ ~ReducePrintAll
  /\ Len(out) = 1
  /\ Cardinality(DedupedResults) >= 3
  /\ Len(Results) > Cardinality(DedupedResults)
  /\ \E i \in DOMAIN Results : length(getString(Results[i])) > length(out[1])

\* C6 as stated: without print-all exactly one text is emitted.
C6_Original ==
  (pc = "done" /\ ~failed) =>
    /\ OutputWellFormed
    /\ ~ReducePrintAll => Len(out) = 1 /\ Shortest(out[1])

\* ============================================ Driver and fix-it: properties

\* C7: every candidate the Driver adds to Results is valid with what it is
\* reported with: it carries the path conditions its validity was checked
\* under, and the known-bits and interval facts the Inferrer needed for it.
C7_CandidatesCarryTheirBasis ==
  \A j \in DOMAIN CandMap :
    /\ CandMap[j].PCs = support[j].PCs
    /\ CandMap[j].BPCs = support[j].BPCs
    /\ support[j].carried.KB = support[j].KB
    /\ support[j].carried.CR = support[j].CR

Unconditionally(i) == basis[i].FoundWP /\ basis[i].KB = <<>> /\ basis[i].CR = <<>>

Conditionally(i) == basis[i].FoundWP /\ basis[i].KB # <<>>

\* C8: in the ranking of a pass, an unconditionally valid candidate stands
\* before every candidate valid only under a known-bits precondition.
C8_UnconditionalRanksFirst ==
  dpc = "emit" =>
    \A a, b \in DOMAIN Guesses :
      (Unconditionally(a) /\ Conditionally(b)) => IndexOf(Idx, a) < IndexOf(Idx, b)

\* C9: a hole-free candidate for which the Inferrer reports success with a
\* non-empty sequence of known-bits disjuncts is pushed to Results by the
\* pass, carrying those disjuncts, after the pass's unconditional candidates.
C9_ConditionalCandidateYielded ==
  [][ dpc = "emit" =>
        \A i \in DOMAIN Guesses :
          Conditionally(i) =>
            \E j \in DOMAIN CandMap' :
              /\ j > Len(CandMap)
              /\ support'[j].pass = pass /\ support'[j].idx = i
              /\ support'[j].carried.KB = basis[i].KB
              /\ \A k \in DOMAIN CandMap' :
                   (k > Len(CandMap) /\ support'[k].KB = <<>>) => k < j
    ]_vars

\* C10: when the Inferrer returns FoundWP = false the caller emits nothing
\* for the rule, whatever the result sequences hold: Generalize prints
\* nothing, and the Driver does not push the candidate.
C10_NotFoundEmitsNothing ==
  /\ (fpc = "done" /\ ~fAns.FoundWP) => fOut = <<>>
  /\ dpc = "emit" =>
       \A i \in DOMAIN Guesses : ~basis[i].FoundWP => i \notin Range(EmittedIdx)

\* C11: no transform mutates a node of the rule it was given: when fix-it
\* has run, every Var of the rule holds the refinement facts (known ones,
\* known zeros, range) it was parsed with.
C11_RuleLeftAsParsed ==
  fpc = "done" => facts = [v \in VarsOf(FInput) |-> NoFacts]

\* The LHS constants a candidate's LHS has a variable in place of.
ReplacedConsts(L) == Range(LHSConsts) \ collectInsts(L)

\* C12: for a rule with n LHS constants the Driver runs exactly n + 1
\* passes: pass p <= n replaces the p-th constant found, alone, pass n + 1
\* replaces all of them, and the passes append to Results in pass order.
C12_PassesOneByOneThenAll ==
  /\ dpc \in {"done", "crashed"} => pass = Len(LHSConsts) + 2
  /\ \A j \in DOMAIN CandMap :
       /\ support[j].pass \in 1..(Len(LHSConsts) + 1)
       /\ ReplacedConsts(CandMap[j].Mapping.LHS) =
            (IF support[j].pass <= Len(LHSConsts)
             THEN {LHSConsts[support[j].pass]}
             ELSE Range(LHSConsts))
  /\ \A i, j \in DOMAIN CandMap : i < j => support[i].pass <= support[j].pass

\* C14: hole-free candidates of a pass with equal utility are ranked in the
\* order the synthesizer enumerated them.
C14_TiesKeepEnumerationOrder ==
  dpc = "emit" =>
    \A a, b \in DOMAIN Guesses :
      (a < b /\ Utility[a] = Utility[b]) => IndexOf(Idx, a) < IndexOf(Idx, b)

AndRule == ParsedReplacement(Op("And", W8, <<X, X>>), X, <<>>, <<>>)

\* C19: reducing the valid rule (x & x) -> x yields a result, built by one
\* elision, with at most one reachable node.
C19_AndRuleReducesInOneStep ==
  (pc = "done" /\ Input = AndRule /\ upfront = "valid") =>
    /\ built = 1
    /\ Results # <<>> /\ out # <<>>
    /\ \A i \in DOMAIN Results : Cardinality(CollectAll(Results[i])) <= 1

\* C20: a solver error returned to the Driver by the Constant Solver aborts
\* the pass: the loop does not go on to the next guess as it does when no
\* constant was found.
C20_DriverErrorAbortsPass ==
  [][ \A ans \in SynthAnswers(getConstants(Hole(W8))) \cup SynthAnswers(getConstants(Hole(W64))) :
        (ans.EC = "error" /\ SynthStep(ans)) => dpc' \notin {"synth", "infer", "emit", "done"}
    ]_vars

\* The guesses of the pass, as enumerated, that have no constant to
\* synthesize (after line 153 WithoutConsts holds the enumerated guesses).
HoleFree == SelectSeq(WithoutConsts, LAMBDA g : getConstants(g) = {})

EmptyAssignments ==
  { ans \in SynthAnswers(getConstants(Hole(W8))) \cup SynthAnswers(getConstants(Hole(W64))) :
      ans.map = <<>> }

\* The parts of C13 on the Constant Solver: no pushed candidate is the
\* degenerate rewrite of the input to itself, and a guess with holes whose
\* assignment came back empty adds nothing while the loop goes on.
EmptyAssignmentAddsNothing ==
  /\ \A j \in DOMAIN CandMap' : support'[j].idx = 0 => CandMap'[j].Mapping # DInput.Mapping
  /\ \A ans \in EmptyAssignments :
       (gi <= Len(Guesses) /\ getConstants(Guesses[gi]) # {} /\ SynthStep(ans)) =>
          /\ CandMap' = CandMap
          /\ dpc' = "synth" /\ gi' = gi + 1

\* C13 (as amended): the Constant Solver is called with no-op avoidance; a
\* guess with holes whose assignment comes back empty adds nothing; and the
\* Driver goes on to every hole-free guess of the pass, which it evaluates
\* through the Precondition Inferrer unless -symbolize-no-dataflow is set:
\* then the Inferrer is not called and every hole-free guess is dropped.
C13_EmptyAssignmentFallsThrough ==
  [][ /\ AvoidNops
      /\ dpc = "synth" => EmptyAssignmentAddsNothing
      /\ dpc' = "emit" =>
           /\ Len(basis') = Len(HoleFree')
           /\ \A i \in DOMAIN basis' : basis'[i].asked = ~SymbolizeNoDFP
           /\ SymbolizeNoDFP => \A i \in DOMAIN Guesses' : Guesses'[i] = Null
    ]_vars

\* A pass with two guesses, the first with a hole for which the Constant
\* Solver returned no assignment, the second hole-free and evaluated.
C13_Witness ==
  /\ dpc = "emit"
  /\ Len(WithoutConsts) = 2 /\ getConstants(WithoutConsts[1]) # {}
  /\ \A j \in DOMAIN CandMap : support[j].pass # pass
  /\ Len(basis) = 1 /\ basis[1].asked /\ basis[1].FoundWP

\* C13 as stated: every hole-free guess is evaluated through the Inferrer.
C13_Original ==
  [][ /\ AvoidNops
      /\ dpc = "synth" => EmptyAssignmentAddsNothing
      /\ dpc' = "emit" =>
           /\ Len(basis') = Len(HoleFree')
           /\ \A i \in DOMAIN basis' : basis'[i].asked
    ]_vars

\* ================================================= The commands: properties

OneVar(k) == Len(getVariablesFor(Inputs[k].Mapping.LHS)) = 1

\* C15: width generalization of a rule whose LHS has not exactly one free
\* variable reports the error, writes no cloned rule for that item, and the
\* process goes on with the next item.
C15_WrongVarCountSkipsItem ==
  /\ \A e \in DOMAIN wOut : OneVar(wOut[e].item)
  /\ mpc \in {"aborted", "crashed"} => OneVar(mk)
  /\ \A k \in DOMAIN Inputs :
       (tool = "generalize" /\ "GeneralizeWidth" \in Flags /\ k < mk /\ ~OneVar(k)) =>
          k \in reported

\* The nodes of a rule's LHS and RHS all have a kind CloneInst and
\* InferWidth have a case for.
Supported(R) ==
  \A I \in collectInsts(R.Mapping.LHS) \cup collectInsts(R.Mapping.RHS) :
    I.k \in {"Var"} \cup WidthOfOperand \cup WidthOne

WellWidthed(root, w) ==
  \A I \in collectInsts(root) :
    /\ I.k = "Var" => I.w = w
    /\ I.k \in WidthOfOperand => \A j \in DOMAIN I.ops : I.ops[j].w = I.w
    /\ I.k \in WidthOne => I.w = 1

\* C16: in the clones written for width w of a one-free-variable rule,
\* every Var has width w, every And/Or/Xor/Add/Sub/Mul has the width of each
\* of its operands, and every Slt/Sle/Ult/Ule has width 1.
C16_ClonesWellWidthed ==
  \A e \in DOMAIN wOut :
    (OneVar(wOut[e].item) /\ Supported(Inputs[wOut[e].item])) =>
       WellWidthed(wOut[e].LHS, wOut[e].w) /\ WellWidthed(wOut[e].RHS, wOut[e].w)

\* C17: for a rule with a Const leaf or an operator without a width rule,
\* in the LHS or in the RHS alone, no cloned pair is written at any width.
C17_UnsupportedNodeFailsFast ==
  \A e \in DOMAIN wOut : Supported(Inputs[wOut[e].item])

\* C18: when reading the input fails or parsing reports an error, the
\* command exits with a non-zero status, having run no transform on any
\* item and written nothing to standard output.
C18_FailedInputExitsNonZero ==
  (ReadFails \/ ErrStr) =>
    /\ ran = <<>> /\ wOut = <<>> /\ mOut = <<>>
    /\ mpc # "read" => mpc = "exited" /\ status = "1"

C18_Witness ==
  /\ tool = "matcher-gen" /\ ErrStr /\ Len(Inputs) = 2
  /\ mpc = "exited" /\ status = "1"

\* ================================================ Reducer: the search steps

NodeCount(R) == Cardinality(CollectAll(R))

\* The reachable nodes that are neither Var nor Const.
Inner(R) == {I \in CollectAll(R) : I.k \notin {"Var", "Const"}}

\* C21 (as amended): every recursive call ReduceRec makes from its call on
\* R is on a rule with no more reachable nodes than R, and with strictly
\* fewer reachable nodes that are neither Var nor Const.
C21_RecursionShrinksInnerNodes ==
  \A i \in 2..Len(stack) :
    /\ NodeCount(stack[i].rule) <= NodeCount(stack[i - 1].rule)
    /\ Cardinality(Inner(stack[i].rule)) < Cardinality(Inner(stack[i - 1].rule))

\* A recursive call on a rule with as many reachable nodes as its caller's.
C21_Witness ==
  /\ Len(stack) >= 3
  /\ NodeCount(stack[2].rule) = NodeCount(stack[1].rule)
  /\ NodeCount(stack[3].rule) < NodeCount(stack[2].rule)

\* C21 as stated: the reachable-node count is strictly smaller in every
\* recursive call.
C21_Original ==
  \A i \in 2..Len(stack) : NodeCount(stack[i].rule) < NodeCount(stack[i - 1].rule)

Eligible(R) ==
  {I \in CollectAll(R) :
     I # R.Mapping.LHS /\ I # R.Mapping.RHS /\ I.k # "Var" /\ I.k # "Const"}

RECURSIVE Subst(_, _, _)
Subst(N, I, NV) ==
  IF N = I THEN NV
  ELSE [N EXCEPT !.ops = [j \in DOMAIN N.ops |-> Subst(N.ops[j], I, NV)]]

SubstRule(R, I, NV) ==
  [Mapping |-> InstMapping(Subst(R.Mapping.LHS, I, NV), Subst(R.Mapping.RHS, I, NV)),
   PCs |-> [j \in DOMAIN R.PCs |->
              InstMapping(Subst(R.PCs[j].LHS, I, NV), Subst(R.PCs[j].RHS, I, NV))],
   BPCs |-> [j \in DOMAIN R.BPCs |->
              InstMapping(Subst(R.BPCs[j].LHS, I, NV), Subst(R.BPCs[j].RHS, I, NV))]]

\* C22: a variant substitutes one collected node, not the LHS root, not the
\* RHS root, not a Var, not a Const, by one fresh variable of its width, in
\* the LHS, the RHS and both sides of every PC and BPC; every such node of
\* the current rule gets its turn before the call returns; and no variant is
\* built when at most one node is reachable.
C22_OneSubstitutionPerVariant ==
  [][ /\ (pc = "enter" /\ pc' = "loop") =>
            /\ stack'[Len(stack')].todo = Eligible(Top.rule)
            /\ NodeCount(Top.rule) > 1
      /\ built' # built =>
            /\ pc = "loop" /\ built' = built + 1 /\ varnum' = varnum + 1
            /\ \E I \in Eligible(Top.rule) \cap Top.todo :
                 LET NV == Var("newvar", varnum, I.w)
                     V == SubstRule(Top.rule, I, NV)
                 IN /\ NV \notin CollectAll(Top.rule)
                    /\ I \notin CollectAll(V) /\ NV \in CollectAll(V)
                    /\ stack'[Len(stack)].todo = Top.todo \ {I}
                    /\ Len(stack') > Len(stack) => stack'[Len(stack')].rule = V
                    /\ Results' # Results => Results' = Append(Results, V)
      /\ (pc = "loop" /\ Len(stack') < Len(stack)) => Top.todo = {}
    ]_vars

\* A recursive call on a variant whose path condition was substituted in.
C22_Witness ==
  /\ Len(stack) >= 2
  /\ stack[1].rule.PCs # <<>>
  /\ stack[2].rule.PCs # stack[1].rule.PCs
  /\ stack[2].rule.Mapping = stack[1].rule.Mapping

\* ============================================== Driver: utility and targets

\* The sum of the function f over the set S.
RECURSIVE Sum(_, _)
Sum(S, f) ==
  IF S = {} THEN 0
  ELSE LET x == CHOOSE x \in S : TRUE IN f[x] + Sum(S \ {x}, f)

\* The (disjunct, variable) pairs of a known-bits precondition.
Pairs(Pre) == {<<d, v>> : d \in DOMAIN Pre, v \in CandVars(pass)} \cap
              UNION {{<<d, v>> : v \in DOMAIN Pre[d]} : d \in DOMAIN Pre}

Unpinned(P) == (0..(P.w - 1)) \ (P.Zero \cup P.One)

\* Bit b of variable v pinned to zero in disjunct d as well.
Pinned(Pre, d, v, b) ==
  [Pre EXCEPT ![d] = [@ EXCEPT ![v] = [@ EXCEPT !.Zero = @ \cup {b}]]]

\* C23: the utility of a hole-free candidate is 0 when the Inferrer found
\* no precondition for it, 1000 when its known-bits precondition is empty,
\* and otherwise the sum over the disjuncts and their variables of
\* (W - popcount(Zero)) + (W - popcount(One)); one more pinned bit of one
\* variable in one disjunct makes it exactly 1 less.
C23_UtilityCountsFreeBits ==
  dpc = "emit" =>
    \A i \in DOMAIN Guesses :
      /\ ~basis[i].FoundWP => Utility[i] = 0
      /\ (basis[i].FoundWP /\ Preconditions[i] = <<>>) => Utility[i] = 1000
      /\ (basis[i].FoundWP /\ Preconditions[i] # <<>>) =>
           LET Pre == Preconditions[i]
               Free == [p \in Pairs(Pre) |->
                          (Pre[p[1]][p[2]].w - Cardinality(Pre[p[1]][p[2]].Zero))
                            + (Pre[p[1]][p[2]].w - Cardinality(Pre[p[1]][p[2]].One))]
           IN /\ Utility[i] = Sum(Pairs(Pre), Free)
              /\ \A p \in Pairs(Pre) : \A b \in Unpinned(Pre[p[1]][p[2]]) :
                   UtilityOf(Guesses[i], Pinned(Pre, p[1], p[2], b)) = Utility[i] - 1

\* A pass that ranks an unconditional candidate and one valid under two
\* disjuncts.
C23_Witness ==
  /\ dpc = "emit" /\ Len(Guesses) = 2
  /\ basis[1].FoundWP /\ Preconditions[1] = <<>> /\ Utility[1] = 1000
  /\ basis[2].FoundWP /\ Len(Preconditions[2]) = 2 /\ Utility[2] \notin {0, 1000}

\* The RHS constants the running pass replaces by its guesses: lines 128
\* and 157 name RHSConsts[0] and no other element.
Targets == IF target = Null THEN {} ELSE {target}

\* C24: in every pass each Const leaf of the RHS is in turn the target the
\* guesses replace, so a pass ends only when every RHS constant has been
\* its target.
C24_EveryRHSConstTargeted ==
  [][(dpc = "emit" /\ dpc' # "emit") => Range(RHSConsts) \subseteq Targets]_vars

\* ==================================================== Width generalization

\* The pairs written for item k, in the order written.
PairsOf(k) == SelectSeq(wOut, LAMBDA e : e.item = k)

\* GeneralizeBitWidth was called on item k and is over, by return or by the
\* end of the process.
WidthOver(k) ==
  /\ tool = "generalize" /\ "GeneralizeWidth" \in Flags
  /\ k < mk \/ (k = mk /\ mpc \in {"aborted", "crashed"})

\* The i-th pair is the rule at width i.
AscendingWidths(k) ==
  \A i \in DOMAIN PairsOf(k) :
    /\ PairsOf(k)[i].w = i
    /\ \A I \in collectInsts(PairsOf(k)[i].LHS) \cup collectInsts(PairsOf(k)[i].RHS) :
         I.k = "Var" => I.w = i

FactsOfDisjunct(Result, kb) ==
  [v \in VarsOf(FInput) |->
     IF v \notin DOMAIN Result THEN NoFacts
     ELSE IF kb THEN [NoFacts EXCEPT !.KnownOnes = Result[v].One, !.KnownZeros = Result[v].Zero]
     ELSE [NoFacts EXCEPT !.Range = Result[v]]]

\* C26: the rule printed for the k-th disjunct carries on each variable
\* exactly the facts of the k-th disjunct, and as many rules are printed as
\* the lattice that is used has disjuncts.
C26_FactsOfOneDisjunctOnly ==
  (fpc = "done" /\ ~PrintsAsIs(fAns)) =>
    LET kb == fAns.KB # <<>>
        Rs == IF kb THEN fAns.KB ELSE fAns.CR
    IN /\ Len(fOut) = Len(Rs)
       /\ \A k \in DOMAIN fOut : fOut[k].facts = FactsOfDisjunct(Rs[k], kb)

\* ===================================================== Driver: RHSConsts[0]

\* A pass past line 110 has read RHSConsts[0]->Width, or died doing so.
ReadRHSConst0 == dpc \in {"synth", "infer", "emit", "crashed"}

\* C27: for a rule whose RHS has no Const leaf, no pass reads an element of
\* the empty RHS-constant list and no candidate is emitted.
C27_NoReadPastTheEnd ==
  (dpc # "idle" /\ RHSConsts = <<>>) => ~ReadRHSConst0 /\ CandMap = <<>>

\* ================================================= matcher-gen: the blocks

\* The dispatch blocks open after the first n tokens written.
RECURSIVE Open(_)
Open(n) ==
  IF n = 0 THEN 0
  ELSE Open(n - 1) + (IF mOut[n].t = "open" THEN 1 ELSE IF mOut[n].t = "close" THEN -1 ELSE 0)

\* C28: every closing brace written matches a dispatch block opened before
\* it, and when main returns every opened block has been closed, for an
\* empty input list and for inputs all passed over by the filters too.
C28_BlocksBalanced ==
  /\ \A n \in DOMAIN mOut : Open(n) >= 0
  /\ (tool = "matcher-gen" /\ mpc = "exited") => Open(Len(mOut)) = 0

\* ============================================ matcher-gen: dominance checks

\* The non-Const operands on a path from I down through entries of Syms.
RECURSIVE Dominated(_, _)
Dominated(I, Syms) ==
  UNION { {I.ops[j]} \cup Dominated(I.ops[j], Syms)
          : j \in {i \in DOMAIN I.ops : I.ops[i].k # "Const" /\ I.ops[i] \in Syms} }

\* C29: the dominance checks generated for a rule are those of the rule
\* alone, one for each non-Const operand on a path from the RHS root through
\* symbol-table entries, whichever rules came before it in the run.
C29_DomChecksOfTheRuleAlone ==
  \A k \in DOMAIN Constraints :
    GenLHSMatcher(GInputs[k].Mapping.LHS) =>
      Range(Constraints[k]) =
        Dominated(GInputs[k].Mapping.RHS,
                  InitSymbolTable(GInputs[k].Mapping.LHS, GInputs[k].Mapping.RHS))

\* ====================================================== InfixPrinter: names

\* C30: every name varN that printInst returns as the printed form of a
\* node was defined by a 'let varN = ...;' written to the stream before that
\* return.
C30_NamesDefinedBeforeUse ==
  \A i \in DOMAIN Returned :
    \A j \in DOMAIN Returned[i].str :
      Returned[i].str[j].t = "var" => Returned[i].str[j].n \in Returned[i].defined

====
